---- MODULE Spec2Model ----
(***************************************************************************)
(* Model of the generic assembler of source/backend/asm.js: the code block *)
(* (item stream, labels, deferred items), its relaxation (assemble) and    *)
(* the encoder operations that feed it.                                    *)
(***************************************************************************)
EXTENDS Integers, Sequences, FiniteSets, TLC

VARIABLES
    startPos,    \* CodeBlock.startPos
    bigEndian,   \* CodeBlock.bigEndian
    code,        \* CodeBlock.code: the item stream
    lblPos,      \* label._pos of every label object (Null = null)
    deferred,    \* the deferred objects created so far: checks, current, size
    pc,          \* where the program is: idle, inside assemble, or just out of it
    fixupList,   \* assemble: var fixupList
    idx,         \* assemble: loop index i of the running loop
    pos,         \* assemble: var pos
    hasChanged,  \* assemble: var hasChanged
    oldCode,     \* assemble: var oldCode
    ret,         \* value returned by the last assemble (Null while there is none)
    err,         \* message of the error thrown by the last assemble ("none" if none)
    iter,        \* number of the running iteration of the fix-point loop
    calls,       \* number of assemble calls made so far
    gens,        \* number of items the encoder has generated so far
    accepted,    \* <<d, i>>: check i of deferred d returned a size in this assembly
    rejected,    \* <<d, i>>: check i of deferred d returned null in this assembly
    toBlock,     \* the running assemble was called by assembleToMachineCodeBlock
    requiredArray, \* CodeBlock.requiredArray: entries [label, linkObj]
    providedArray, \* CodeBlock.providedArray: entries [label, linkObj]
    mcbs,        \* the machine code blocks allocated so far
    linkAddr,    \* the address each provided link object was last given by setAddr
    setAddrLog,  \* the setAddr calls made so far: <<block, linkObj, address>>
    linked,      \* the machine code block asm.link was last called on (0: none)
    origins,     \* <<k, address>>: origin(address) was called after item k
    thisAddr,    \* an asm.address object: addrElemArray, bigEndian
    called,      \* the method last called on it, with its arguments
    frame,       \* addOffset / subOffset: newAddr, carry, opnd, i of the running loop
    outcome      \* how the call ended: the value returned or the error thrown

vars == <<startPos, bigEndian, code, lblPos, deferred, pc, fixupList, idx, pos,
          hasChanged, oldCode, ret, err, iter, calls, gens, accepted, rejected,
          toBlock, requiredArray, providedArray, mcbs, linkAddr, setAddrLog,
          linked, origins, thisAddr, called, frame, outcome>>

(* the variables of the code blocks *)
asmVars == <<startPos, bigEndian, code, lblPos, deferred, pc, fixupList, idx, pos,
             hasChanged, oldCode, ret, err, iter, calls, gens, accepted, rejected,
             toBlock, requiredArray, providedArray, mcbs, linkAddr, setAddrLog,
             linked, origins>>

(* the variables of the address object *)
addrVars == <<thisAddr, called, frame, outcome>>

blockVars == <<startPos, bigEndian>>

linkVars == <<requiredArray, providedArray, mcbs, linkAddr, setAddrLog, linked>>

---------------------------------------------------------------------------
(* Bounds of the model *)

MaxItems == 3
MaxLabels == 2
MaxAssemble == 2
MaxIter == 7
DispReach == 2

(* Numbers of the source *)

Null == -1
ShortSize == 2
GeneralSize == 5
ShortOpcode == 52
GeneralOpcode == 53
ShortMax == 127
ShortMin == -128

Throws == Null - 1

Labels == 1 .. MaxLabels

(* the start positions a block is constructed with *)
StartPositions == {0, 1}

---------------------------------------------------------------------------
(* Items of the stream *)

Num(n) == [type |-> "NUM", val |-> n]
Lbl(l) == [type |-> "LBL", id |-> l]
Def(d) == [type |-> "DEF", id |-> d]
Lst(t) == [type |-> "LST", text |-> t]

IsNum(x) == x.type = "NUM"

(* the bytes of a stream, in order *)
ByteSeq(c) == SelectSeq(c, IsNum)

(* gen8 .. gen32: the bytes appended for n *)

(* num_and(n, 0xff), num_shift(n, -k): the low 8 bits of n, and n shifted  *)
(* right by k = 8, 16 or 32 bits, of a number of any size                  *)
num_and(n, mask) == n % (mask + 1)

num_shift(n, k) ==
    CASE k = 0 - 8  -> n \div 256
      [] k = 0 - 16 -> n \div 65536
      [] k = 0 - 32 -> (n \div 65536) \div 65536

Byte8(n) == num_and(n, 255)

Gen16BE(n) == <<Byte8(num_shift(n, 0 - 8)), Byte8(n)>>
Gen16LE(n) == <<Byte8(n), Byte8(num_shift(n, 0 - 8))>>
Gen16(n, be) == IF be THEN Gen16BE(n) ELSE Gen16LE(n)

Gen32BELowFirst(n, be) == Gen16(n, be) \o Gen16(num_shift(n, 0 - 16), be)

Gen32BE(n, be) == Gen16(num_shift(n, 0 - 16), be) \o Gen16(n, be)
Gen32LE(n, be) == Gen16(n, be) \o Gen16(num_shift(n, 0 - 16), be)
Gen32(n, be) == IF be THEN Gen32BE(n, be) ELSE Gen32LE(n, be)

Gen64BE(n, be) == Gen32(num_shift(n, 0 - 32), be) \o Gen32(n, be)
Gen64LE(n, be) == Gen32(n, be) \o Gen32(num_shift(n, 0 - 32), be)
Gen64(n, be) == IF be THEN Gen64BE(n, be) ELSE Gen64LE(n, be)

(* genNumber: the widths its switch knows *)
ValidWidths == {8, 16, 32, 64}

genNumberNarrow(width, n, be) ==
    CASE width = 8 -> <<Byte8(n)>>
      [] OTHER     -> Gen16(n, be)

(* asm.CodeBlock.prototype.genNumber *)
genNumber(width, n, be) ==
    CASE width = 8  -> <<Byte8(n)>>
      [] width = 16 -> Gen16(n, be)
      [] width = 32 -> Gen32(n, be)
      [] width = 64 -> Gen64(n, be)

(* genNumber: the message of the default case *)
InvalidWidth(width) ==
    CASE width = 24 -> "Invalid width: '24'"
      [] width = 8  -> "Invalid width: '8'"
      [] width = 16 -> "Invalid width: '16'"
      [] width = 32 -> "Invalid width: '32'"
      [] width = 64 -> "Invalid width: '64'"
      [] width = 0  -> "Invalid width: '0'"
      [] OTHER      -> "Invalid width"

---------------------------------------------------------------------------
(* Alternatives of a deferred object: one check and one production each.   *)
(* The kinds are those of the source: the short and general displacement   *)
(* of the documentation example, the padding of align, and two checks an   *)
(* encoder may pass: one whose size follows a label, one that never        *)
(* applies. A last kind breaks the contract of the documentation: its      *)
(* production appends a number of bytes that is not the size its check     *)
(* returns.                                                                *)

ShortDisp(l, lo, hi, bias) ==
    [kind |-> "shortDisp", lbl |-> l, lo |-> lo, hi |-> hi, bias |-> bias]
GeneralDisp(l, bias) == [kind |-> "generalDisp", lbl |-> l, bias |-> bias]
AlignAlt(multiple, offset, fill) ==
    [kind |-> "align", multiple |-> multiple, offset |-> offset, fill |-> fill]
NearAlt(l, th, szIn, szOut) ==
    [kind |-> "near", lbl |-> l, th |-> th, szIn |-> szIn, szOut |-> szOut]
NeverAlt == [kind |-> "never"]
WrongSizeAlt(declared, produced) ==
    [kind |-> "wrongSize", declared |-> declared, produced |-> produced]

UsesLabel(alt) == alt.kind \in {"shortDisp", "generalDisp", "near"}

(* the remainder operator of JavaScript: the sign of the dividend *)
JsRem(a, b) == IF a >= 0 THEN a % b ELSE 0 - ((0 - a) % b)

modTruncated(dividend, divisor) == JsRem(dividend, divisor)

(* align: function mod *)
mod(dividend, divisor) ==
    LET r == JsRem(dividend, divisor) IN IF r < 0 THEN divisor + r ELSE r

(* align: function nb_bytes *)
nb_bytes(alt, p) == mod((0 - p) + alt.offset, alt.multiple)

shortDispCheckNoLower(alt, p, lp) ==
    IF lp[alt.lbl] = Null THEN Throws
    ELSE LET dist == lp[alt.lbl] - (p + alt.bias)
         IN  IF dist <= alt.hi THEN ShortSize ELSE Null

(* shortDispCheck of the documentation example *)
shortDispCheck(alt, p, lp) ==
    IF lp[alt.lbl] = Null THEN Throws
    ELSE LET dist == lp[alt.lbl] - (p + alt.bias)
         IN  IF dist >= alt.lo /\ dist <= alt.hi THEN ShortSize ELSE Null

(* generalDispCheck of the documentation example *)
generalDispCheck(alt, p, lp) == GeneralSize

(* a check whose size depends on the distance to a label *)
nearCheck(alt, p, lp) ==
    IF lp[alt.lbl] = Null THEN Throws
    ELSE IF lp[alt.lbl] - p <= alt.th THEN alt.szIn ELSE alt.szOut

(* check(this, pos): Null, a size, or Throws when getPos finds no position *)
Check(alt, p, lp) ==
    CASE alt.kind = "shortDisp"   -> shortDispCheck(alt, p, lp)
      [] alt.kind = "generalDisp" -> generalDispCheck(alt, p, lp)
      [] alt.kind = "align"       -> nb_bytes(alt, p)
      [] alt.kind = "near"        -> nearCheck(alt, p, lp)
      [] alt.kind = "wrongSize"   -> alt.declared
      [] OTHER                    -> Null

(* shortDispProd / generalDispProd of the documentation example *)
shortDispProd(alt, p, lp) ==
    <<ShortOpcode, Byte8(lp[alt.lbl] - (p + alt.bias))>>
generalDispProd(alt, p, lp, be) ==
    <<GeneralOpcode>> \o Gen32(lp[alt.lbl] - (p + alt.bias), be)

add_bytes_one_more(alt, p) == [i \in 1 .. nb_bytes(alt, p) + 1 |-> Byte8(alt.fill)]

(* align: function add_bytes *)
add_bytes(alt, p) == [i \in 1 .. nb_bytes(alt, p) |-> Byte8(alt.fill)]

nearProd(alt, p, lp) == [i \in 1 .. nearCheck(alt, p, lp) |-> 0]

(* prods[current](this, pos): the byte values it appends *)
Prod(alt, p, lp, be) ==
    CASE alt.kind = "shortDisp"   -> shortDispProd(alt, p, lp)
      [] alt.kind = "generalDisp" -> generalDispProd(alt, p, lp, be)
      [] alt.kind = "align"       -> add_bytes(alt, p)
      [] alt.kind = "near"        -> nearProd(alt, p, lp)
      [] alt.kind = "wrongSize"   -> [i \in 1 .. alt.produced |-> 0]
      [] OTHER                    -> <<>>

(* the production calls getPos on a label that has no position *)
ProdThrows(alt, lp) == UsesLabel(alt) /\ lp[alt.lbl] = Null

(* asm.CodeBlock.prototype.deferred *)
NewDeferred(checks) == [checks |-> checks, current |-> 0, size |-> 0]

---------------------------------------------------------------------------
(* asm.address: a machine address of 32 or 64 bits, held as elements of    *)
(* 16 bits, least significant first.                                       *)

ElemBase == 65536
ElemMax == 65535

Address(elems, be) == [addrElemArray |-> elems, bigEndian |-> be]

(* a number of the caller: hi * 0x10000 + lo, or its opposite *)
Plus(hi, lo) == [neg |-> FALSE, hi |-> hi, lo |-> lo]
Minus(hi, lo) == [neg |-> TRUE, hi |-> hi, lo |-> lo]

IsZero(n) == n.hi = 0 /\ n.lo = 0

(* n < 0, n > 0, -n *)
IsNegative(n) == n.neg /\ ~IsZero(n)
IsPositive(n) == ~n.neg /\ ~IsZero(n)
Negated(n) == IF IsZero(n) THEN Plus(0, 0) ELSE [n EXCEPT !.neg = ~n.neg]

(* n & 0xFFFF: the low 16 bits of n as a 32-bit integer *)
Low16(n) == IF n.neg THEN (ElemBase - n.lo) % ElemBase ELSE n.lo

(* bits 16 .. 31 of n as a 32-bit integer *)
High16(n) ==
    IF ~n.neg THEN n.hi % ElemBase
    ELSE IF n.lo = 0 THEN (ElemBase - (n.hi % ElemBase)) % ElemBase
    ELSE ElemMax - (n.hi % ElemBase)

(* n >> 16: n is taken as a signed integer of 32 bits *)
Shr16(n) ==
    IF High16(n) >= ElemBase \div 2
    THEN Minus(0, ElemBase - High16(n))
    ELSE Plus(0, High16(n))

(* an optional bigEndian argument: "true", "false" or "undefined" *)
Flags == {"true", "false", "undefined"}

OrDefault(flag, default) == IF flag = "undefined" THEN default ELSE flag = "true"

(* how a call ends: it returns an address, bytes or a number, or throws *)
Returns(a) ==
    [ends |-> "return", message |-> "none", value |-> a, bytes |-> <<>>, number |-> 0]

ReturnsBytes(bs) ==
    [ends |-> "return", message |-> "none", value |-> Address(<<>>, FALSE),
     bytes |-> bs, number |-> 0]

ReturnsNumber(k) ==
    [ends |-> "return", message |-> "none", value |-> Address(<<>>, FALSE),
     bytes |-> <<>>, number |-> k]

Raises(message) ==
    [ends |-> "throw", message |-> message, value |-> Address(<<>>, FALSE),
     bytes |-> <<>>, number |-> 0]

(* the call does not end: its loop runs on *)
Running ==
    [ends |-> "run", message |-> "none", value |-> Address(<<>>, FALSE),
     bytes |-> <<>>, number |-> 0]

NoOutcome ==
    [ends |-> "none", message |-> "none", value |-> Address(<<>>, FALSE),
     bytes |-> <<>>, number |-> 0]

Reversed(s) == [k \in 1 .. Len(s) |-> s[Len(s) + 1 - k]]

(* asm.address(byteArray, bigEndian) *)
asm_address(byteArray, flag) ==
    LET be == OrDefault(flag, FALSE)
        ordered == IF be THEN Reversed(byteArray) ELSE byteArray
    IN  IF Len(byteArray) \notin {4, 8}
        THEN Raises("Address must be 4 or 8 bytes long")
        ELSE Returns(Address([k \in 1 .. Len(byteArray) \div 2 |->
                                  ordered[2 * k] * 256 + ordered[2 * k - 1]], be))

(* asm.address.nullAddr *)
nullAddr(w, flag) ==
    asm_address(IF w = 32 THEN <<0, 0, 0, 0>> ELSE <<0, 0, 0, 0, 0, 0, 0, 0>>, flag)

(* asm.address.prototype.width *)
width(a) == IF Len(a.addrElemArray) = 2 THEN 32 ELSE 64

(* asm.address.prototype.copy *)
copy(a) == Address(a.addrElemArray, a.bigEndian)

(* the index up to which the model follows a loop that has no end *)
MaxIndex == 6

(* addOffset, subOffset: the local variables before the loop *)
OffsetFrame(a, n) == [newAddr |-> copy(a).addrElemArray, carry |-> 0, opnd |-> n, i |-> 0]

NoFrame == [newAddr |-> <<>>, carry |-> 0, opnd |-> Plus(0, 0), i |-> 0]

(* while (opnd > 0 || carry !== 0) *)
Looping(f) == IsPositive(f.opnd) \/ f.carry # 0

(* addOffset: one iteration of the loop, i being inside the array *)
addIter(a, f) ==
    LET res == a.addrElemArray[f.i + 1] + Low16(f.opnd) + f.carry
    IN  [newAddr |-> [f.newAddr EXCEPT ![f.i + 1] = res % ElemBase],
         carry   |-> res \div ElemBase,
         opnd    |-> Shr16(f.opnd),
         i       |-> f.i + 1]

(* addOffset: assert(i < length, "Address overflow") *)
AddOverflows(a, f) == f.i >= Len(a.addrElemArray)

(* subOffset: one iteration of the loop. Past the end of the array the     *)
(* element read is undefined and res is NaN: the element written is NaN    *)
(* and carry becomes -1.                                                   *)
subIter(a, f) ==
    IF f.i >= Len(a.addrElemArray)
    THEN [newAddr |-> f.newAddr,
          carry   |-> 0 - 1,
          opnd    |-> Shr16(f.opnd),
          i       |-> IF f.i < MaxIndex THEN f.i + 1 ELSE f.i]
    ELSE LET res == a.addrElemArray[f.i + 1] - Low16(f.opnd) + f.carry
         IN  [newAddr |-> [f.newAddr EXCEPT ![f.i + 1] =
                              IF res >= 0 THEN res ELSE res + ElemBase],
              carry   |-> IF res >= 0 THEN 0 ELSE 0 - 1,
              opnd    |-> Shr16(f.opnd),
              i       |-> f.i + 1]

(* addOffset: the return *)
addEnd(a, f) == Returns(Address(f.newAddr, a.bigEndian))

(* subOffset: assert(opnd === 0 && carry === 0, "Address underflow") and   *)
(* the return                                                              *)
subEnd(a, f) ==
    IF IsZero(f.opnd) /\ f.carry = 0
    THEN Returns(Address(f.newAddr, a.bigEndian))
    ELSE Raises("Address underflow")

(* addOffset: the loop from f on *)
RECURSIVE addRun(_, _)
addRun(a, f) ==
    IF ~Looping(f) THEN addEnd(a, f)
    ELSE IF AddOverflows(a, f) THEN Raises("Address overflow")
    ELSE addRun(a, addIter(a, f))

(* subOffset: the loop from f on; once it reads past the array carry stays *)
(* -1 and the loop has no end                                              *)
RECURSIVE subRun(_, _)
subRun(a, f) ==
    IF ~Looping(f) THEN subEnd(a, f)
    ELSE IF f.i >= Len(a.addrElemArray) THEN Running
    ELSE subRun(a, subIter(a, f))

(* asm.address.prototype.addOffset *)
addOffset(a, n) ==
    IF IsNegative(n) THEN subRun(a, OffsetFrame(a, Negated(n)))
    ELSE addRun(a, OffsetFrame(a, n))

(* asm.address.prototype.subOffset *)
subOffset(a, n) ==
    IF IsNegative(n) THEN addRun(a, OffsetFrame(a, Negated(n)))
    ELSE subRun(a, OffsetFrame(a, n))

(* addAddress: carry after element k *)
RECURSIVE CarryAfter(_, _, _)
CarryAfter(a, b, k) ==
    IF k = 0 THEN 0
    ELSE (a.addrElemArray[k] + b.addrElemArray[k] + CarryAfter(a, b, k - 1)) \div ElemBase

SameWidth == "both addresses must have the same width"

(* asm.address.prototype.addAddress *)
addAddress(a, addr) ==
    IF width(a) # width(addr) THEN Raises(SameWidth)
    ELSE Returns(Address([k \in 1 .. Len(a.addrElemArray) |->
                             (a.addrElemArray[k] + addr.addrElemArray[k]
                                + CarryAfter(a, addr, k - 1)) % ElemBase],
                         a.bigEndian))

complementOnes(a) ==
    Returns(Address([k \in 1 .. Len(a.addrElemArray) |-> ElemMax - a.addrElemArray[k]],
                    a.bigEndian))

(* asm.address.prototype.complement *)
complement(a) ==
    addOffset(Address([k \in 1 .. Len(a.addrElemArray) |-> ElemMax - a.addrElemArray[k]],
                      a.bigEndian),
              Plus(0, 1))

getBytesLittle(a, flag) ==
    ReturnsBytes([k \in 1 .. 2 * Len(a.addrElemArray) |->
                     IF k % 2 = 1 THEN a.addrElemArray[(k + 1) \div 2] % 256
                     ELSE (a.addrElemArray[k \div 2] \div 256) % 256])

(* asm.address.prototype.getBytes *)
getBytes(a, flag) ==
    LET bytes == [k \in 1 .. 2 * Len(a.addrElemArray) |->
                     IF k % 2 = 1 THEN a.addrElemArray[(k + 1) \div 2] % 256
                     ELSE (a.addrElemArray[k \div 2] \div 256) % 256]
    IN  ReturnsBytes(IF OrDefault(flag, a.bigEndian) THEN Reversed(bytes) ELSE bytes)

(* asm.address.prototype.cmp *)
RECURSIVE cmpFrom(_, _, _)
cmpFrom(a, addr, k) ==
    IF k = 0 THEN 0
    ELSE IF a.addrElemArray[k] < addr.addrElemArray[k] THEN 0 - 1
    ELSE IF a.addrElemArray[k] > addr.addrElemArray[k] THEN 1
    ELSE cmpFrom(a, addr, k - 1)

cmp(a, addr) ==
    IF width(a) # width(addr) THEN Raises(SameWidth)
    ELSE ReturnsNumber(cmpFrom(a, addr, Len(addr.addrElemArray)))

(* asm.address.prototype.getAddrOffsetBytes *)
getAddrOffsetBytes(a, addr, flag) ==
    LET be == IF OrDefault(flag, a.bigEndian) THEN "true" ELSE "false"
    IN  IF width(a) # 32 THEN Raises("64 bits offsets are not supported")
        ELSE IF width(a) # width(addr) THEN Raises(SameWidth)
        ELSE IF complement(a).ends # "return" THEN complement(a)
        ELSE getBytes(addAddress(addr, complement(a).value).value, be)

(* no method was called on the address yet *)
NoCall ==
    [method |-> "none", n |-> Plus(0, 0), addr |-> Address(<<>>, FALSE),
     flag |-> "undefined", bytes |-> <<>>]

AddrInit ==
    /\ thisAddr = nullAddr(32, "undefined").value
    /\ called = NoCall
    /\ frame = NoFrame
    /\ outcome = NoOutcome

---------------------------------------------------------------------------
(* Link objects of the encoder. A provided one keeps the address setAddr   *)
(* gives it. A required one has a width and a linkValue: the little-endian *)
(* bytes of the distance from the end of a site of 4 bytes to the provided *)
(* object it names, in the number of bytes it chooses to return.           *)

ProvidedObjs == {"p"}

RequiredObj(w, n) == [provided |-> "p", width |-> w, bytes |-> n]

(* no link object was given an address, no block was allocated *)
LinkInit ==
    /\ toBlock = FALSE
    /\ requiredArray = <<>>
    /\ providedArray = <<>>
    /\ mcbs = <<>>
    /\ linkAddr = [o \in ProvidedObjs |-> Null]
    /\ setAddrLog = <<>>
    /\ linked = 0
    /\ origins = {}
    /\ AddrInit

---------------------------------------------------------------------------
(* The state after construction: new CodeBlock(startPos), label objects    *)
(* without position, no deferred object.                                   *)

Init ==
    /\ startPos \in StartPositions
    /\ bigEndian = FALSE
    /\ code = <<>>
    /\ lblPos = [l \in Labels |-> Null]
    /\ deferred = <<>>
    /\ pc = "idle"
    /\ fixupList = <<>>
    /\ idx = 0
    /\ pos = 0
    /\ hasChanged = FALSE
    /\ oldCode = <<>>
    /\ ret = Null
    /\ err = "none"
    /\ iter = 0
    /\ calls = 0
    /\ gens = 0
    /\ accepted = {}
    /\ rejected = {}
    /\ LinkInit

(* no assemble is running: the encoder may call the block *)
Idle == pc \in {"idle", "failed", "made", "linked"} \/ (pc = "done" /\ ~toBlock)

CanExtend == Idle /\ gens < MaxItems

(* the deferred objects the stream still holds: after the generation of   *)
(* the deferred code none is left in it, and the old ones are unreachable  *)
Reachable(defs, c) ==
    IF \E k \in 1 .. Len(c) : c[k].type = "DEF" THEN defs ELSE <<>>

(* the origin calls made on the stream since its last assembly *)
Since(o) == IF pc = "idle" THEN o ELSE {}

(* outside assemble its local variables and its last outcome are gone *)
ForgetLocals ==
    /\ fixupList' = <<>>
    /\ idx' = 0
    /\ pos' = 0
    /\ hasChanged' = FALSE
    /\ oldCode' = <<>>
    /\ ret' = Null
    /\ iter' = 0
    /\ accepted' = {}
    /\ rejected' = {}
    /\ toBlock' = FALSE

(* a call of the encoder that gives the block something *)
ForgetRun ==
    /\ ForgetLocals
    /\ pc' = "idle"
    /\ gens' = gens + 1
    /\ UNCHANGED calls

(* the same, for a call that returns normally *)
Forget ==
    /\ ForgetRun
    /\ err' = "none"

(* n bytes of value 0x90, as n calls of gen8 give them *)
Nops(n) == [i \in 1 .. n |-> Num(144)]

extendInFront(x) == code' = <<x>> \o code

(* asm.CodeBlock.prototype.extend *)
extend(x) == code' = Append(code, x)

(* asm.CodeBlock.prototype.gen8 *)
gen8 ==
    /\ CanExtend
    /\ \E n \in {451} : extend(Num(Byte8(n)))
    /\ Forget
    /\ deferred' = Reachable(deferred, code)
    /\ origins' = Since(origins)
    /\ UNCHANGED <<addrVars, blockVars, lblPos, linkVars>>

(* asm.CodeBlock.prototype.genListing *)
genListing ==
    /\ CanExtend
    /\ extend(Lst("text"))
    /\ Forget
    /\ deferred' = Reachable(deferred, code)
    /\ origins' = Since(origins)
    /\ UNCHANGED <<addrVars, blockVars, lblPos, linkVars>>

PlacedNever(lp, l) == FALSE

(* genLabel: label._pos !== null *)
Placed(lp, l) == lp[l] # Null

(* genLabel(label): the error, or setPos(0) and extend *)
genLabelOp(l) ==
    IF Placed(lblPos, l)
    THEN /\ err' = "label multiply defined: "
         /\ UNCHANGED <<code, lblPos>>
    ELSE /\ err' = "none"
         /\ lblPos' = [lblPos EXCEPT ![l] = 0]
         /\ extend(Lbl(l))

(* asm.CodeBlock.prototype.genLabel *)
genLabel ==
    /\ CanExtend
    /\ \E l \in Labels : genLabelOp(l)
    /\ ForgetRun
    /\ deferred' = Reachable(deferred, code)
    /\ origins' = Since(origins)
    /\ UNCHANGED <<addrVars, blockVars, linkVars>>

(* the check arrays the encoder passes to genDeferred *)
DeferredChoices ==
    {<<ShortDisp(l, 0 - (DispReach + 1), DispReach, 0), GeneralDisp(l, 0)>> :
        l \in Labels}
    \cup {<<GeneralDisp(1, 0)>>, <<NearAlt(1, 1, 2, 1)>>, <<NeverAlt>>}

(* asm.CodeBlock.prototype.genDeferred *)
genDeferredOp(checks) ==
    LET defs == Reachable(deferred, code)
    IN  /\ deferred' = Append(defs, NewDeferred(checks))
        /\ extend(Def(Len(defs) + 1))

genDeferred ==
    /\ CanExtend
    /\ \E checks \in DeferredChoices : genDeferredOp(checks)
    /\ Forget
    /\ origins' = Since(origins)
    /\ UNCHANGED <<addrVars, blockVars, lblPos, linkVars>>

(* asm.CodeBlock.prototype.align *)
align ==
    /\ CanExtend
    /\ \E multiple \in {2}, offset \in {0}, fill \in {204} :
          genDeferredOp(<<AlignAlt(multiple, offset, fill)>>)
    /\ Forget
    /\ origins' = Since(origins)
    /\ UNCHANGED <<addrVars, blockVars, lblPos, linkVars>>

---------------------------------------------------------------------------
(* asm.CodeBlock.prototype.assemble                                        *)

(* the number of plain bytes among the first k items of c *)
NumsIn(c, k) == Cardinality({j \in 1 .. k : IsNum(c[j])})

(* the places of the labels and deferred objects of c *)
FixupPlaces(c) == {k \in 1 .. Len(c) : c[k].type \in {"LBL", "DEF"}}

(* first loop: the fixup list, entries <<span, item>>, span being the      *)
(* number of plain bytes since the entry before                            *)
FixupOf(c) ==
    LET places == FixupPlaces(c)
        place(i) == CHOOSE k \in places :
                        Cardinality({j \in places : j < k}) = i - 1
        before(i) == IF i = 1 THEN 0 ELSE place(i - 1)
    IN  [i \in 1 .. Cardinality(places) |->
            <<NumsIn(c, place(i)) - NumsIn(c, before(i)), c[place(i)]>>]

InitialPosForgets(c, sp, lp) ==
    [l \in DOMAIN lp |->
        IF \E k \in 1 .. Len(c) : c[k] = Lbl(l)
        THEN LET k == CHOOSE j \in 1 .. Len(c) : c[j] = Lbl(l)
             IN  sp + NumsIn(c, k - 1)
        ELSE Null]

(* first loop: the initial position assignment of the labels of c *)
InitialPos(c, sp, lp) ==
    [l \in DOMAIN lp |->
        IF \E k \in 1 .. Len(c) : c[k] = Lbl(l)
        THEN LET k == CHOOSE j \in 1 .. Len(c) : c[j] = Lbl(l)
             IN  sp + NumsIn(c, k - 1)
        ELSE lp[l]]

(* the first loop of assemble *)
AssembleBegin ==
    /\ Idle
    /\ calls < MaxAssemble
    /\ calls' = calls + 1
    /\ fixupList' = FixupOf(code)
    /\ lblPos' = InitialPos(code, startPos, lblPos)
    /\ oldCode' = code
    /\ pc' = "size"
    /\ idx' = 1
    /\ pos' = startPos
    /\ hasChanged' = FALSE
    /\ iter' = 1
    /\ ret' = Null
    /\ err' = "none"
    /\ accepted' = {}
    /\ rejected' = {}
    /\ deferred' = Reachable(deferred, code)
    /\ UNCHANGED <<addrVars, blockVars, code, gens, linkVars, origins>>

(* assemble(), called by the encoder *)
AssembleStart ==
    /\ AssembleBegin
    /\ toBlock' = FALSE

(* an error thrown out of assemble *)
Fail(message) ==
    /\ pc' = "failed"
    /\ err' = message

SizeShrinks(oldSize, newSize) == oldSize > newSize

(* the size of a deferred object differs from the one just returned *)
SizeDiffers(oldSize, newSize) == oldSize # newSize

(* the position after a deferred object in the sizing pass *)
SizingAdvance(p, oldSize, newSize) ==
    IF SizeDiffers(oldSize, newSize) THEN (p + oldSize) + oldSize ELSE p + oldSize

AcceptAndRewind(d, newSize) == [d EXCEPT !.size = newSize, !.current = 0]

(* the update of a deferred object whose check returned newSize *)
Accept(d, newSize) == [d EXCEPT !.size = newSize]

NextCurrentStays(c) == c

(* curr.current++ *)
NextCurrent(c) == c + 1

(* sizing pass: one step of the loop over the fixup list, one check call   *)
(* at most                                                                 *)
SizeStep ==
    /\ pc = "size"
    /\ IF idx > Len(fixupList)
       THEN /\ pc' = "label"
            /\ idx' = 1
            /\ pos' = startPos
            /\ UNCHANGED <<deferred, hasChanged, err, accepted, rejected>>
       ELSE LET span == fixupList[idx][1]
                curr == fixupList[idx][2]
                p    == pos + span
            IN  IF curr.type # "DEF"
                THEN /\ pos' = p
                     /\ idx' = idx + 1
                     /\ UNCHANGED <<pc, deferred, hasChanged, err, accepted, rejected>>
                ELSE LET d == deferred[curr.id]
                     IN  IF d.current >= Len(d.checks)
                         THEN /\ Fail("every check procedure tested without finding a valid one")
                              /\ UNCHANGED <<deferred, hasChanged, idx, pos, accepted, rejected>>
                         ELSE LET newSize == Check(d.checks[d.current + 1], p, lblPos)
                              IN  IF newSize = Throws
                                  THEN /\ Fail("undefined label")
                                       /\ UNCHANGED <<deferred, hasChanged, idx, pos,
                                                      accepted, rejected>>
                                  ELSE IF newSize = Null
                                  THEN /\ deferred' = [deferred EXCEPT
                                              ![curr.id].current = NextCurrent(d.current)]
                                       /\ rejected' = rejected \cup {<<curr.id, d.current>>}
                                       /\ UNCHANGED <<pc, hasChanged, idx, pos, err, accepted>>
                                  ELSE /\ deferred' = [deferred EXCEPT ![curr.id] = Accept(d, newSize)]
                                       /\ hasChanged' = (hasChanged \/ SizeDiffers(d.size, newSize))
                                       /\ pos' = SizingAdvance(p, d.size, newSize)
                                       /\ idx' = idx + 1
                                       /\ accepted' = accepted \cup {<<curr.id, d.current>>}
                                       /\ UNCHANGED <<pc, err, rejected>>
    /\ UNCHANGED <<addrVars, blockVars, code, lblPos, fixupList, oldCode, ret, iter, calls, gens,
                   toBlock, linkVars, origins>>

LabelAlwaysMoved(lp, l, p) == TRUE

(* a label of the fixup list is not at the walk position *)
LabelMoved(lp, l, p) == lp[l] # p

LabelAdvanceTwice(p, d) == (p + d.size) + d.size

(* the position after a deferred object in the label pass *)
LabelAdvance(p, d) == p + d.size

(* label pass: one step of the loop over the fixup list; at its end the    *)
(* test of the while loop                                                  *)
LabelStep ==
    /\ pc = "label"
    /\ IF idx > Len(fixupList)
       THEN /\ IF hasChanged
               THEN /\ pc' = "size"
                    /\ iter' = IF iter < MaxIter THEN iter + 1 ELSE iter
                    /\ code' = code
               ELSE /\ pc' = "emit"
                    /\ iter' = iter
                    /\ code' = <<>>
            /\ hasChanged' = FALSE
            /\ idx' = 1
            /\ pos' = startPos
            /\ UNCHANGED lblPos
       ELSE LET span == fixupList[idx][1]
                curr == fixupList[idx][2]
                p    == pos + span
            IN  /\ idx' = idx + 1
                /\ UNCHANGED <<pc, iter, code>>
                /\ IF curr.type = "LBL"
                   THEN /\ pos' = p
                        /\ lblPos' = [lblPos EXCEPT ![curr.id] = p]
                        /\ hasChanged' = (hasChanged \/ LabelMoved(lblPos, curr.id, p))
                   ELSE /\ pos' = LabelAdvance(p, deferred[curr.id])
                        /\ UNCHANGED <<lblPos, hasChanged>>
    /\ UNCHANGED <<addrVars, blockVars, deferred, fixupList, oldCode, ret, err, calls, gens,
                   accepted, rejected, toBlock, linkVars, origins>>

(* the label met by the emission walk is where the walk is *)
LabelConsistent(lp, l, p) == lp[l] = p

EmitAdvanceProduced(p, d) ==
    p + Len(Prod(d.checks[d.current + 1], p, lblPos, bigEndian))

(* the position after a deferred object in the emission walk *)
EmitAdvance(p, d) == p + d.size

(* the items of the byte values a production appends, through gen8 *)
Bytes(bs) == [i \in 1 .. Len(bs) |-> Num(bs[i])]

(* generation of the deferred code: one item of oldCode per step; at the   *)
(* end, the return                                                         *)
EmitStep ==
    /\ pc = "emit"
    /\ IF idx > Len(oldCode)
       THEN /\ ret' = pos
            /\ pc' = "done"
            /\ UNCHANGED <<code, idx, pos, err>>
       ELSE LET curr == oldCode[idx]
            IN  CASE curr.type = "NUM" ->
                        /\ extend(curr)
                        /\ pos' = pos + 1
                        /\ idx' = idx + 1
                        /\ UNCHANGED <<pc, ret, err>>
                  [] curr.type = "LBL" ->
                        IF LabelConsistent(lblPos, curr.id, pos)
                        THEN /\ idx' = idx + 1
                             /\ UNCHANGED <<code, pos, pc, ret, err>>
                        ELSE /\ Fail("inconsistency detected")
                             /\ UNCHANGED <<code, pos, idx, ret>>
                  [] curr.type = "DEF" ->
                        LET d   == deferred[curr.id]
                            alt == d.checks[d.current + 1]
                        IN  IF ProdThrows(alt, lblPos)
                            THEN /\ Fail("undefined label")
                                 /\ UNCHANGED <<code, pos, idx, ret>>
                            ELSE /\ code' = code \o Bytes(Prod(alt, pos, lblPos, bigEndian))
                                 /\ pos' = EmitAdvance(pos, d)
                                 /\ idx' = idx + 1
                                 /\ UNCHANGED <<pc, ret, err>>
                  [] OTHER ->
                        /\ extend(curr)
                        /\ idx' = idx + 1
                        /\ UNCHANGED <<pos, pc, ret, err>>
    /\ UNCHANGED <<addrVars, blockVars, lblPos, deferred, fixupList, hasChanged, oldCode,
                   iter, calls, gens, accepted, rejected, toBlock, linkVars, origins>>

Next ==
    \/ gen8
    \/ genListing
    \/ genLabel
    \/ genDeferred
    \/ align
    \/ AssembleStart
    \/ SizeStep
    \/ LabelStep
    \/ EmitStep

Spec == Init /\ [][Next]_vars

---------------------------------------------------------------------------
(* A second encoder: it constructs further blocks while its label objects  *)
(* live on, calls origin, and passes productions that do not keep to the   *)
(* size their check returns.                                               *)

(* new asm.CodeBlock(startPos) *)
newBlock ==
    /\ Idle
    /\ code # <<>>
    /\ startPos' \in StartPositions
    /\ bigEndian' = FALSE
    /\ code' = <<>>
    /\ deferred' = <<>>
    /\ requiredArray' = <<>>
    /\ providedArray' = <<>>
    /\ origins' = {}
    /\ ForgetLocals
    /\ pc' = "idle"
    /\ err' = "none"
    /\ UNCHANGED <<addrVars, lblPos, mcbs, linkAddr, setAddrLog, linked, calls, gens>>

(* the addresses the encoder passes to origin *)
OriginAddresses == {1, 4}

(* asm.CodeBlock.prototype.origin: nb_bytes and add_bytes are defined and  *)
(* dropped, the block is returned as it is                                 *)
origin ==
    /\ CanExtend
    /\ \E address \in OriginAddresses :
          origins' = Since(origins) \cup {<<Len(code), address>>}
    /\ Forget
    /\ deferred' = Reachable(deferred, code)
    /\ UNCHANGED <<addrVars, blockVars, code, lblPos, linkVars>>

(* check arrays whose productions do not append the size declared *)
LooseChoices ==
    {<<WrongSizeAlt(2, 1)>>, <<WrongSizeAlt(1, 2)>>, <<GeneralDisp(1, 0)>>}

genDeferredLoose ==
    /\ CanExtend
    /\ \E checks \in LooseChoices : genDeferredOp(checks)
    /\ Forget
    /\ origins' = Since(origins)
    /\ UNCHANGED <<addrVars, blockVars, lblPos, linkVars>>

BlockNext ==
    \/ gen8
    \/ genListing
    \/ genLabel
    \/ genDeferredLoose
    \/ origin
    \/ newBlock
    \/ AssembleStart
    \/ SizeStep
    \/ LabelStep
    \/ EmitStep

BlockSpec == Init /\ [][BlockNext]_vars

---------------------------------------------------------------------------
(* A caller of asm.address: it constructs addresses from byte arrays and   *)
(* calls their methods. addOffset and subOffset run their loop one         *)
(* iteration a step; the other methods have loops over the elements only.  *)

(* the byte arrays given to the constructor *)
ByteArrays ==
    {<<0, 0, 0, 0>>, <<1, 0, 0, 0>>, <<252, 255, 255, 255>>, <<255, 255, 255, 255>>,
     <<0, 0, 1, 0>>, <<120, 86, 52, 18>>, <<0, 0, 0, 128>>, <<1, 2>>,
     <<0, 0, 0, 0, 0, 0, 0, 0>>, <<255, 255, 255, 255, 255, 255, 255, 255>>,
     <<252, 255, 255, 255, 0, 0, 0, 0>>, <<1, 2, 3, 4, 5, 6, 7, 8>>}

(* the offsets given to addOffset and subOffset: 0, 1, 4, 0xFFFF, 0x10000, *)
(* 0x7FFFFFFF, 0x80000000, 0xFFFFFFFF, 0x100000000, -1, -4, -0x80000000    *)
Offsets ==
    {Plus(0, 0), Plus(0, 1), Plus(0, 4), Plus(0, 65535), Plus(1, 0), Plus(32767, 65535),
     Plus(32768, 0), Plus(65535, 65535), Plus(65536, 0),
     Minus(0, 1), Minus(0, 4), Minus(32768, 0)}

(* the addresses given as arguments *)
ArgAddrs ==
    {asm_address(b, "false").value :
        b \in {<<0, 0, 0, 0>>, <<4, 0, 0, 0>>, <<255, 255, 255, 255>>,
               <<120, 86, 52, 18>>, <<0, 0, 1, 0>>, <<1, 2, 3, 4, 5, 6, 7, 8>>}}

Call(m, n, a, flag, bytes) ==
    [method |-> m, n |-> n, addr |-> a, flag |-> flag, bytes |-> bytes]

(* no call is running *)
Settled == outcome.ends # "run"

(* asm.address(byteArray, bigEndian) *)
newAddress ==
    /\ Settled
    /\ \E byteArray \in ByteArrays : \E flag \in Flags :
          LET r == asm_address(byteArray, flag)
          IN  /\ called' = Call("address", Plus(0, 0), Address(<<>>, FALSE), flag, byteArray)
              /\ outcome' = r
              /\ thisAddr' = IF r.ends = "return" THEN r.value ELSE thisAddr
    /\ frame' = NoFrame
    /\ UNCHANGED asmVars

(* the loop a call of addOffset or subOffset runs: a negative n is passed, *)
(* negated, to the other method                                            *)
LoopOf(c) ==
    IF (c.method = "addOffset") = ~IsNegative(c.n) THEN "add" ELSE "sub"

(* thisAddr.addOffset(n) or thisAddr.subOffset(n): up to the loop *)
callOffset ==
    /\ Settled
    /\ \E m \in {"addOffset", "subOffset"} : \E n \in Offsets :
          /\ called' = Call(m, n, Address(<<>>, FALSE), "undefined", <<>>)
          /\ frame' = OffsetFrame(thisAddr, IF IsNegative(n) THEN Negated(n) ELSE n)
    /\ outcome' = Running
    /\ UNCHANGED <<thisAddr, asmVars>>

(* addOffset, subOffset: the test of the loop, then one iteration or the   *)
(* end of the call                                                         *)
offsetStep ==
    /\ outcome.ends = "run"
    /\ IF LoopOf(called) = "add"
       THEN IF ~Looping(frame)
            THEN outcome' = addEnd(thisAddr, frame) /\ UNCHANGED frame
            ELSE IF AddOverflows(thisAddr, frame)
            THEN outcome' = Raises("Address overflow") /\ UNCHANGED frame
            ELSE frame' = addIter(thisAddr, frame) /\ UNCHANGED outcome
       ELSE IF ~Looping(frame)
            THEN outcome' = subEnd(thisAddr, frame) /\ UNCHANGED frame
            ELSE frame' = subIter(thisAddr, frame) /\ UNCHANGED outcome
    /\ UNCHANGED <<thisAddr, called, asmVars>>

(* thisAddr.addAddress(addr) *)
callAddAddress ==
    /\ Settled
    /\ \E addr \in ArgAddrs :
          /\ called' = Call("addAddress", Plus(0, 0), addr, "undefined", <<>>)
          /\ outcome' = addAddress(thisAddr, addr)
    /\ frame' = NoFrame
    /\ UNCHANGED <<thisAddr, asmVars>>

(* thisAddr.complement() *)
callComplement ==
    /\ Settled
    /\ called' = Call("complement", Plus(0, 0), Address(<<>>, FALSE), "undefined", <<>>)
    /\ outcome' = complement(thisAddr)
    /\ frame' = NoFrame
    /\ UNCHANGED <<thisAddr, asmVars>>

(* thisAddr.getAddrOffsetBytes(addr, bigEndian) *)
callGetAddrOffsetBytes ==
    /\ Settled
    /\ \E addr \in ArgAddrs : \E flag \in Flags :
          /\ called' = Call("getAddrOffsetBytes", Plus(0, 0), addr, flag, <<>>)
          /\ outcome' = getAddrOffsetBytes(thisAddr, addr, flag)
    /\ frame' = NoFrame
    /\ UNCHANGED <<thisAddr, asmVars>>

(* thisAddr.cmp(addr) *)
callCmp ==
    /\ Settled
    /\ \E addr \in ArgAddrs :
          /\ called' = Call("cmp", Plus(0, 0), addr, "undefined", <<>>)
          /\ outcome' = cmp(thisAddr, addr)
    /\ frame' = NoFrame
    /\ UNCHANGED <<thisAddr, asmVars>>

(* thisAddr.getBytes(bigEndian) *)
callGetBytes ==
    /\ Settled
    /\ \E flag \in Flags :
          /\ called' = Call("getBytes", Plus(0, 0), Address(<<>>, FALSE), flag, <<>>)
          /\ outcome' = getBytes(thisAddr, flag)
    /\ frame' = NoFrame
    /\ UNCHANGED <<thisAddr, asmVars>>

AddrNext ==
    \/ newAddress
    \/ callOffset
    \/ offsetStep
    \/ callAddAddress
    \/ callComplement
    \/ callGetAddrOffsetBytes
    \/ callCmp
    \/ callGetBytes

AddrSpec == Init /\ [][AddrNext]_vars

(* a call runs until it returns or throws, if it does *)
AddrFairSpec == Init /\ [][AddrNext]_vars /\ WF_vars(offsetStep)

---------------------------------------------------------------------------
(* Required and provided sites, machine code blocks and asm.link.          *)

(* the link objects the encoder requires, by width and bytes of linkValue  *)
RequiredChoices ==
    {RequiredObj(8, 1), RequiredObj(16, 2), RequiredObj(32, 4), RequiredObj(64, 8),
     RequiredObj(24, 3), RequiredObj(0, 0)}

(* those it links: of the last two, linkValue returns a value that is not  *)
(* width / 8 bytes long                                                    *)
LinkedChoices == {RequiredObj(32, 4), RequiredObj(8, 2), RequiredObj(16, 1)}

(* asm.CodeBlock.prototype.genRequired: this.label(), genLabel, genNumber  *)
(* and the push on requiredArray, which an invalid width does not reach    *)
genRequiredOp(obj) ==
    LET label == Len(lblPos) + 1
    IN  /\ lblPos' = Append(lblPos, 0)
        /\ IF obj.width \in ValidWidths
           THEN /\ code' = Append(code, Lbl(label))
                              \o Bytes(genNumber(obj.width, 0, bigEndian))
                /\ requiredArray' =
                      Append(requiredArray, [label |-> label, linkObj |-> obj])
                /\ err' = "none"
           ELSE /\ code' = Append(code, Lbl(label))
                /\ err' = InvalidWidth(obj.width)
                /\ UNCHANGED requiredArray

genRequired ==
    /\ CanExtend
    /\ \E obj \in RequiredChoices : genRequiredOp(obj)
    /\ ForgetRun
    /\ deferred' = Reachable(deferred, code)
    /\ origins' = Since(origins)
    /\ UNCHANGED <<addrVars, blockVars, providedArray, mcbs, linkAddr, setAddrLog, linked>>

genRequiredLinked ==
    /\ CanExtend
    /\ \E obj \in LinkedChoices : genRequiredOp(obj)
    /\ ForgetRun
    /\ deferred' = Reachable(deferred, code)
    /\ origins' = Since(origins)
    /\ UNCHANGED <<addrVars, blockVars, providedArray, mcbs, linkAddr, setAddrLog, linked>>

(* asm.CodeBlock.prototype.genProvided *)
genProvidedOp(obj) ==
    LET label == Len(lblPos) + 1
    IN  /\ lblPos' = Append(lblPos, 0)
        /\ extend(Lbl(label))
        /\ providedArray' = Append(providedArray, [label |-> label, linkObj |-> obj])

genProvided ==
    /\ CanExtend
    /\ \E obj \in ProvidedObjs : genProvidedOp(obj)
    /\ Forget
    /\ deferred' = Reachable(deferred, code)
    /\ origins' = Since(origins)
    /\ UNCHANGED <<addrVars, blockVars, requiredArray, mcbs, linkAddr, setAddrLog, linked>>

(* asm.CodeBlock.prototype.gen32 *)
gen32 ==
    /\ CanExtend
    /\ \E n \in {305419896} : code' = code \o Bytes(Gen32(n, bigEndian))
    /\ Forget
    /\ deferred' = Reachable(deferred, code)
    /\ origins' = Since(origins)
    /\ UNCHANGED <<addrVars, blockVars, lblPos, linkVars>>

(* the numbers the encoder passes to gen16, gen32 and gen64 *)
Numbers == {0, 1, 255, 256, 4660, 305419896, 2147483647, 0 - 1, 0 - 4660}

(* asm.CodeBlock.prototype.gen16 *)
gen16 ==
    /\ CanExtend
    /\ \E n \in Numbers : code' = code \o Bytes(Gen16(n, bigEndian))
    /\ Forget
    /\ deferred' = Reachable(deferred, code)
    /\ origins' = Since(origins)
    /\ UNCHANGED <<addrVars, blockVars, lblPos, linkVars>>

(* asm.CodeBlock.prototype.gen32, for any number *)
gen32Number ==
    /\ CanExtend
    /\ \E n \in Numbers : code' = code \o Bytes(Gen32(n, bigEndian))
    /\ Forget
    /\ deferred' = Reachable(deferred, code)
    /\ origins' = Since(origins)
    /\ UNCHANGED <<addrVars, blockVars, lblPos, linkVars>>

(* asm.CodeBlock.prototype.gen64 *)
gen64 ==
    /\ CanExtend
    /\ \E n \in Numbers : code' = code \o Bytes(Gen64(n, bigEndian))
    /\ Forget
    /\ deferred' = Reachable(deferred, code)
    /\ origins' = Since(origins)
    /\ UNCHANGED <<addrVars, blockVars, lblPos, linkVars>>

(* new asm.CodeBlock(startPos, true): the block is constructed big-endian *)
newBigEndianBlock ==
    /\ pc = "idle"
    /\ code = <<>>
    /\ ~bigEndian
    /\ bigEndian' = TRUE
    /\ UNCHANGED <<addrVars, linkVars, startPos, code, lblPos, deferred, pc, fixupList, idx,
                   pos, hasChanged, oldCode, ret, err, iter, calls, gens, accepted,
                   rejected, toBlock, origins>>

NumberNext == newBigEndianBlock \/ gen8 \/ gen16 \/ gen32Number \/ gen64

NumberSpec == Init /\ [][NumberNext]_vars

(* the host addresses at which a block may be allocated *)
HostAddrs == {32, 64}

(* asm.address(getBlockAddr(block)): the address object of host address v *)
BlockAddress(v) == asm_address(<<v, 0, 0, 0, 0, 0, 0, 0>>, "undefined").value

(* baseAddr.addOffset(n), as a host address: no offset of a block carries  *)
(* an address of HostAddrs past its first element                          *)
baseAddOffset(addr, n) ==
    LET r == addOffset(BlockAddress(addr), IF n < 0 THEN Minus(0, 0 - n) ELSE Plus(0, n))
    IN  IF r.ends = "return" THEN r.value.addrElemArray[1] ELSE Throws

(* allocMemoryBlock(len, true): len bytes, none written yet *)
allocMemoryBlock(len) == [i \in 1 .. len |-> Null]

(* writeToMemoryBlock(block, pos, x) is checked against the bounds *)
InBlock(mem, o) == 0 <= o /\ o < Len(mem)

writeToMemoryBlock(mem, o, x) == [mem EXCEPT ![o + 1] = x]

(* the writes of bytes bs[i ..] from offset o on, up to one out of bounds *)
RECURSIVE WriteBytes(_, _, _, _)
WriteBytes(mem, o, bs, i) ==
    IF i > Len(bs) THEN [mem |-> mem, ok |-> TRUE]
    ELSE IF ~InBlock(mem, o + (i - 1)) THEN [mem |-> mem, ok |-> FALSE]
    ELSE WriteBytes(writeToMemoryBlock(mem, o + (i - 1), bs[i]), o, bs, i + 1)

OutOfBounds == "write past the end of the block"

(* assembleToMachineCodeBlock: label.getPos() - that.startPos *)
SiteOffsetFromZero(lp, label, sp) == lp[label]

SiteOffset(lp, label, sp) == lp[label] - sp

(* assembleToMachineCodeBlock: the entry of block.requiredArray for o *)
RequiredSite(o, base) ==
    [offset  |-> SiteOffset(lblPos, o.label, startPos),
     dstAddr |-> baseAddOffset(base, SiteOffset(lblPos, o.label, startPos)),
     linkObj |-> o.linkObj]

(* assembleToMachineCodeBlock: the address setAddr is called with for o *)
SrcAddr(o, base) == baseAddOffset(base, SiteOffset(lblPos, o.label, startPos))

(* the address each link object holds after the forEach on providedArray *)
AfterSetAddr(addrs, base) ==
    [x \in DOMAIN addrs |->
        IF \E i \in 1 .. Len(providedArray) : providedArray[i].linkObj = x
        THEN LET i == CHOOSE j \in 1 .. Len(providedArray) :
                        /\ providedArray[j].linkObj = x
                        /\ \A m \in j + 1 .. Len(providedArray) :
                              providedArray[m].linkObj # x
             IN  SrcAddr(providedArray[i], base)
        ELSE addrs[x]]

CopyStartAtStartPos == startPos

(* assembleToMachineCodeBlock: var pos = 0, the offset of the first byte   *)
(* copied                                                                  *)
CopyStart == 0

(* assembleToMachineCodeBlock: the call of assemble *)
assembleToMachineCodeBlock ==
    /\ AssembleBegin
    /\ toBlock' = TRUE

(* assembleToMachineCodeBlock after the return of assemble: allocation,    *)
(* copy of the bytes, required entries, setAddr on the provided objects    *)
MakeBlock ==
    /\ pc = "done"
    /\ toBlock
    /\ \E base \in HostAddrs \ {mcbs[b].base : b \in DOMAIN mcbs} :
          LET numbers == ByteSeq(code)
              copied == WriteBytes(allocMemoryBlock(ret), CopyStart,
                                 [i \in 1 .. Len(numbers) |-> numbers[i].val], 1)
              block == [base     |-> base,
                        bytes    |-> copied.mem,
                        required |-> [i \in 1 .. Len(requiredArray) |->
                                         RequiredSite(requiredArray[i], base)]]
          IN  IF copied.ok
              THEN /\ mcbs' = Append(mcbs, block)
                   /\ linkAddr' = AfterSetAddr(linkAddr, base)
                   /\ setAddrLog' = setAddrLog \o
                          [i \in 1 .. Len(providedArray) |->
                              <<Len(mcbs) + 1, providedArray[i].linkObj,
                                SrcAddr(providedArray[i], base)>>]
                   /\ pc' = "made"
                   /\ UNCHANGED err
              ELSE /\ Fail(OutOfBounds)
                   /\ UNCHANGED <<mcbs, linkAddr, setAddrLog>>
    /\ toBlock' = FALSE
    /\ UNCHANGED <<addrVars, blockVars, code, lblPos, deferred, fixupList, idx, pos, hasChanged,
                   oldCode, ret, iter, calls, gens, accepted, rejected,
                   requiredArray, providedArray, linked, origins>>

(* the bytes of v, least significant first, n of them *)
RECURSIVE LEBytes(_, _)
LEBytes(v, n) == IF n = 0 THEN <<>> ELSE <<v % 256>> \o LEBytes(v \div 256, n - 1)

(* linkObj.linkValue(dstAddr): the distance from the end of a site of 4    *)
(* bytes at dstAddr to the provided object, in the bytes the object gives  *)
linkValue(obj, dstAddr, addrs) ==
    LEBytes(addrs[obj.provided] - (dstAddr + 4), obj.bytes)

LinkSiteShifted(mem, reqs, i, addrs) ==
    WriteBytes(mem, reqs[i].offset + 1,
               linkValue(reqs[i].linkObj, reqs[i].dstAddr, addrs), 1)

LinkSkipFirst(mem, reqs, i, addrs) ==
    LET r == WriteBytes(mem, reqs[i].offset,
                        linkValue(reqs[i].linkObj, reqs[i].dstAddr, addrs), 2)
    IN  r

(* asm.link: the patch of required site i *)
LinkSite(mem, reqs, i, addrs) ==
    WriteBytes(mem, reqs[i].offset,
               linkValue(reqs[i].linkObj, reqs[i].dstAddr, addrs), 1)

LinkOnlySite(mem, reqs, i, addrs) ==
    IF i > Len(reqs) THEN [mem |-> mem, ok |-> TRUE] ELSE LinkSite(mem, reqs, i, addrs)

(* asm.link: the loop over the required sites from i on *)
RECURSIVE LinkFrom(_, _, _, _)
LinkFrom(mem, reqs, i, addrs) ==
    IF i > Len(reqs) THEN [mem |-> mem, ok |-> TRUE]
    ELSE LET r == LinkSite(mem, reqs, i, addrs)
         IN  IF r.ok THEN LinkFrom(r.mem, reqs, i + 1, addrs) ELSE r

(* asm.link(mcb), called after a block was made, once the objects its      *)
(* sites name have an address                                              *)
link ==
    /\ pc \in {"made", "linked"}
    /\ \E b \in DOMAIN mcbs :
          /\ \A i \in 1 .. Len(mcbs[b].required) :
                linkAddr[mcbs[b].required[i].linkObj.provided] # Null
          /\ LET r == LinkFrom(mcbs[b].bytes, mcbs[b].required, 1, linkAddr)
             IN  /\ mcbs' = [mcbs EXCEPT ![b].bytes = r.mem]
                 /\ err' = IF r.ok THEN "none" ELSE OutOfBounds
          /\ linked' = b
    /\ pc' = "linked"
    /\ ForgetLocals
    /\ UNCHANGED <<addrVars, blockVars, code, lblPos, deferred, calls, gens, requiredArray,
                   providedArray, linkAddr, setAddrLog, origins>>

(* the next block, begun at the same start position when the block before *)
(* is made                                                                 *)
nextBlock ==
    /\ pc = "made"
    /\ newBlock
    /\ startPos' = startPos

(* a block of 0 or 10 bytes, or of a byte and an align(4, 0, 0), on which  *)
(* the encoder goes on                                                     *)
LinkBlockInit ==
    /\ startPos \in StartPositions
    /\ bigEndian = FALSE
    /\ \/ code \in {<<>>, Nops(10)} /\ deferred = <<>>
       \/ code = <<Num(144), Def(1)>>
             /\ deferred = <<NewDeferred(<<AlignAlt(4, 0, 0)>>)>>
    /\ lblPos = [l \in Labels |-> Null]
    /\ pc = "idle"
    /\ fixupList = <<>>
    /\ idx = 0
    /\ pos = 0
    /\ hasChanged = FALSE
    /\ oldCode = <<>>
    /\ ret = Null
    /\ err = "none"
    /\ iter = 0
    /\ calls = 0
    /\ gens = 0
    /\ accepted = {}
    /\ rejected = {}
    /\ LinkInit

LinkNext ==
    \/ gen32
    \/ genRequiredLinked
    \/ genProvided
    \/ nextBlock
    \/ assembleToMachineCodeBlock
    \/ SizeStep
    \/ LabelStep
    \/ EmitStep
    \/ MakeBlock
    \/ link

LinkSpec == LinkBlockInit /\ [][LinkNext]_vars

(* the encoder marking sites, of any width, on a block *)
SiteNext ==
    \/ gen8
    \/ gen32
    \/ genRequired
    \/ genProvided

SiteSpec == Init /\ [][SiteNext]_vars

---------------------------------------------------------------------------
(* Blocks of the documentation example, with its numbers: a backward jump  *)
(* over n filling bytes, and two jumps that span each other.               *)

Fill(n) == [i \in 1 .. n |-> Num(0)]

(* the short and the general displacement to label l, both relative to the *)
(* end of the short form                                                   *)
JumpTo(l) ==
    NewDeferred(<<ShortDisp(l, ShortMin, ShortMax, ShortSize),
                  GeneralDisp(l, ShortSize)>>)

(* label 1, n bytes, a jump to label 1 *)
JumpCode(n) == <<Lbl(1)>> \o Fill(n) \o <<Def(1)>>

(* label 1, a jump to label 2, pad bytes, a jump to label 1, label 2 *)
CycleCode(pad) == <<Lbl(1), Def(1)>> \o Fill(pad) \o <<Def(2), Lbl(2)>>

(* the paddings for which each short form reaches its label when the other *)
(* jump is short and does not when the other jump is general               *)
CyclePads == {123, 124}

ScenarioInit ==
    /\ startPos \in StartPositions
    /\ bigEndian = FALSE
    /\ \/ \E n \in {100, 200} :
             /\ code = JumpCode(n)
             /\ deferred = <<JumpTo(1)>>
             /\ lblPos = [l \in Labels |-> IF l = 1 THEN 0 ELSE Null]
       \/ \E pad \in CyclePads :
             /\ code = CycleCode(pad)
             /\ deferred = <<JumpTo(2), JumpTo(1)>>
             /\ lblPos = [l \in Labels |-> IF l \in {1, 2} THEN 0 ELSE Null]
    /\ gens = Len(code)
    /\ pc = "idle"
    /\ fixupList = <<>>
    /\ idx = 0
    /\ pos = 0
    /\ hasChanged = FALSE
    /\ oldCode = <<>>
    /\ ret = Null
    /\ err = "none"
    /\ iter = 0
    /\ calls = 0
    /\ accepted = {}
    /\ rejected = {}
    /\ LinkInit

ScenarioNext == AssembleStart \/ SizeStep \/ LabelStep \/ EmitStep

ScenarioSpec == ScenarioInit /\ [][ScenarioNext]_vars

(* a jump to label 1 over n bytes, label 1, a jump to label 2: label 2 is  *)
(* not in the stream yet                                                   *)
RetryCode(n) == <<Def(1)>> \o Fill(n) \o <<Lbl(1), Def(2)>>

(* the block after the encoder calls that give RetryCode, with one more    *)
(* encoder call to come                                                    *)
RetryInit ==
    /\ startPos \in StartPositions
    /\ bigEndian = FALSE
    /\ \E n \in {100, 200} : code = RetryCode(n)
    /\ deferred = <<JumpTo(1), JumpTo(2)>>
    /\ lblPos = [l \in Labels |-> IF l = 1 THEN 0 ELSE Null]
    /\ gens = MaxItems - 1
    /\ pc = "idle"
    /\ fixupList = <<>>
    /\ idx = 0
    /\ pos = 0
    /\ hasChanged = FALSE
    /\ oldCode = <<>>
    /\ ret = Null
    /\ err = "none"
    /\ iter = 0
    /\ calls = 0
    /\ accepted = {}
    /\ rejected = {}
    /\ LinkInit

RetrySpec == RetryInit /\ [][Next]_vars

(* Blocks with calls of align: n bytes, an align, a label and a byte; or an *)
(* align, n bytes, a second align and a label. The calls are those of the  *)
(* documentation and others with offsets outside 0 .. multiple - 1.        *)

AlignCalls ==
    {AlignAlt(16, 0, 0), AlignAlt(8, 0, 204), AlignAlt(3, 0 - 1, 7),
     AlignAlt(1, 0, 0), AlignAlt(2, 5, 300), AlignAlt(4, 17, 255)}

AlignStarts == {0, 1, 5, 16}

AlignOne(n) == Nops(n) \o <<Def(1), Lbl(1), Num(195)>>

AlignTwo(n) == <<Def(1)>> \o Nops(n) \o <<Def(2), Lbl(1)>>

AlignInit ==
    /\ startPos \in AlignStarts
    /\ bigEndian = FALSE
    /\ \E n \in {0, 3} :
          \/ /\ code = AlignOne(n)
             /\ \E a \in AlignCalls : deferred = <<NewDeferred(<<a>>)>>
          \/ /\ code = AlignTwo(n)
             /\ \E a, b \in AlignCalls :
                   deferred = <<NewDeferred(<<a>>), NewDeferred(<<b>>)>>
    /\ lblPos = [l \in Labels |-> IF l = 1 THEN 0 ELSE Null]
    /\ gens = Len(code)
    /\ pc = "idle"
    /\ fixupList = <<>>
    /\ idx = 0
    /\ pos = 0
    /\ hasChanged = FALSE
    /\ oldCode = <<>>
    /\ ret = Null
    /\ err = "none"
    /\ iter = 0
    /\ calls = 0
    /\ accepted = {}
    /\ rejected = {}
    /\ LinkInit

AlignSpec == AlignInit /\ [][ScenarioNext]_vars

(* assemble is synchronous: once called it runs until it returns or throws *)
FairSpec == Init /\ [][Next]_vars /\ WF_vars(SizeStep \/ LabelStep \/ EmitStep)

---------------------------------------------------------------------------
(* What the properties below speak about                                   *)

(* assemble has just returned normally *)
Returned == pc = "done"

(* assemble is running or has just returned *)
InAssemble == pc \in {"size", "label", "emit", "done"}

(* the deferred object of item k of the stream given to assemble *)
DefAt(k) == deferred[oldCode[k].id]

(* the alternative a deferred object has selected *)
Selected(d) == d.checks[d.current + 1]

DefItems == {k \in 1 .. Len(oldCode) : oldCode[k].type = "DEF"}
LblItems == {k \in 1 .. Len(oldCode) : oldCode[k].type = "LBL"}

(* the sum of the sizes of the deferred items at the places S *)
RECURSIVE SizeSum(_)
SizeSum(S) ==
    IF S = {} THEN 0
    ELSE LET k == CHOOSE j \in S : TRUE IN DefAt(k).size + SizeSum(S \ {k})

(* start position of item k + 1 under the sizes of the deferred objects *)
WalkPos(k) == startPos + NumsIn(oldCode, k) + SizeSum({j \in DefItems : j <= k})

(* the number of bytes the selected productions give at the places S *)
RECURSIVE ProdSum(_)
ProdSum(S) ==
    IF S = {} THEN 0
    ELSE LET k == CHOOSE j \in S : TRUE
         IN  Len(Prod(Selected(DefAt(k)), WalkPos(k - 1), lblPos, bigEndian))
             + ProdSum(S \ {k})

(* number of bytes the productions and gen8 calls gave for items 1 .. k *)
EmittedIn(k) == NumsIn(oldCode, k) + ProdSum({j \in DefItems : j <= k})

---------------------------------------------------------------------------
C2_FixPoint ==
    Returned =>
        /\ \A k \in DefItems :
              /\ DefAt(k).current < Len(DefAt(k).checks)
              /\ Check(Selected(DefAt(k)), WalkPos(k - 1), lblPos) # Null
              /\ Check(Selected(DefAt(k)), WalkPos(k - 1), lblPos) = DefAt(k).size
        /\ \A k \in LblItems : lblPos[oldCode[k].id] = WalkPos(k - 1)

C2_Witness ==
    /\ Returned
    /\ \E k \in DefItems :
          /\ DefAt(k).current = 1
          /\ <<oldCode[k].id, 0>> \in accepted
          /\ Check(Selected(DefAt(k)), WalkPos(k - 1), lblPos) = GeneralSize

(* C3: while assemble runs, no step lowers the current index of a deferred *)
(* object, and a step raises it only by moving it past the alternative     *)
(* whose check has just returned null at the walk position.                *)
RejectsAt(d) ==
    /\ pc = "size"
    /\ idx <= Len(fixupList)
    /\ fixupList[idx][2] = Def(d)
    /\ deferred[d].current < Len(deferred[d].checks)
    /\ Check(Selected(deferred[d]), pos + fixupList[idx][1], lblPos) = Null

C3_CurrentMonotone ==
    [][ /\ pc \in {"size", "label", "emit"} =>
             \A d \in DOMAIN deferred :
                /\ deferred'[d].current >= deferred[d].current
                /\ deferred'[d].current # deferred[d].current => RejectsAt(d)
        /\ pc' = "size" /\ pc # "size" /\ pc # "label" =>
             \A k \in 1 .. Len(code) :
                code[k].type = "DEF" =>
                    deferred'[code[k].id].current = deferred[code[k].id].current
      ]_vars

C3_Witness ==
    /\ pc = "label"
    /\ \E d \in DOMAIN deferred :
          /\ deferred[d].current = 1
          /\ <<d, 0>> \in accepted
          /\ <<d, 0>> \in rejected

(* C4: the fix-point loop of assemble ends when the last alternative of    *)
(* every deferred item always returns a size. As stated, for any sizes the *)
(* checks may return as a function of the position and of the label        *)
(* positions: C4_TerminatesAnySizes. It holds when the size an alternative *)
(* returns does not depend on the label positions: C4_Terminates.          *)
AltsOf(k) == {DefAt(k).checks[i] : i \in 1 .. Len(DefAt(k).checks)}

LastAlt(d) == d.checks[Len(d.checks)]

ChecksAlwaysAnswer ==
    \A k \in DefItems :
        /\ LastAlt(DefAt(k)).kind \in {"generalDisp", "align", "near"}
        /\ \A alt \in AltsOf(k) :
              alt.kind \in {"shortDisp", "near"} => lblPos[alt.lbl] # Null

SizesIgnoreLabels == \A k \in DefItems : \A alt \in AltsOf(k) : alt.kind # "near"

C4_TerminatesAnySizes == (pc = "size" /\ ChecksAlwaysAnswer) ~> (pc = "emit")

C4_Terminates ==
    (pc = "size" /\ ChecksAlwaysAnswer /\ SizesIgnoreLabels) ~> (pc = "emit")

C4_Witness ==
    /\ pc = "emit"
    /\ ChecksAlwaysAnswer
    /\ SizesIgnoreLabels
    /\ DefItems # {}
    /\ iter >= 3

(* C5: the value assemble returns is the number of bytes of the block     *)
(* (byteNb) after the assembly, for any start position.                    *)
byteNb == Len(ByteSeq(code))

C5_ReturnIsByteCount == Returned => ret = byteNb

(* what the code returns: the position after the last byte *)
C5_ReturnIsEndPosition == Returned => ret = startPos + byteNb

(* C6: the number of iterations of the fix-point loop. As stated, at most  *)
(* D * (A - 1) + L + 1: C6_IterationsOriginal. When every check returns    *)
(* null or one fixed size, at most D * (A - 1) + 2: C6_Iterations.         *)
NbDeferred == Cardinality(DefItems)
NbLabels == Cardinality(LblItems)
MaxAlts ==
    IF DefItems = {} THEN 1
    ELSE LET k == CHOOSE j \in DefItems :
                     \A m \in DefItems : Len(DefAt(m).checks) <= Len(DefAt(j).checks)
         IN  Len(DefAt(k).checks)

FixedSizes ==
    \A k \in DefItems : \A alt \in AltsOf(k) :
        alt.kind \in {"shortDisp", "generalDisp", "never"}

C6_IterationsOriginal ==
    InAssemble => iter <= NbDeferred * (MaxAlts - 1) + NbLabels + 1

C6_Iterations ==
    InAssemble /\ FixedSizes => iter <= NbDeferred * (MaxAlts - 1) + 2

C6_Witness ==
    /\ Returned
    /\ FixedSizes
    /\ MaxAlts = 2
    /\ iter = NbDeferred * (MaxAlts - 1) + 2

(* C7: two jumps that span each other, the short form of each reaching    *)
(* its label only when the other jump is short too. As stated, assemble    *)
(* ends with both on the general form: C7_BothLongOriginal. In the code    *)
(* both stay on the short form from the first iteration to the return, so  *)
(* that no selection ever moves back: C7_BothShort.                        *)
CycleRun == \E pad \in CyclePads : oldCode = CycleCode(pad)

(* with the other jump on the general form neither short form applies *)
ShortNeedsShort ==
    /\ Check(deferred[1].checks[1], WalkPos(1),
             [lblPos EXCEPT ![2] = @ + (GeneralSize - ShortSize)]) = Null
    /\ Check(deferred[2].checks[1],
             WalkPos(Len(oldCode) - 2) + (GeneralSize - ShortSize), lblPos) = Null

C7_BothLongOriginal ==
    Returned /\ CycleRun => deferred[1].current = 1 /\ deferred[2].current = 1

C7_BothShort ==
    InAssemble /\ CycleRun =>
        /\ deferred[1].current = 0
        /\ deferred[2].current = 0
        /\ Returned =>
              /\ deferred[1].size = ShortSize
              /\ deferred[2].size = ShortSize
              /\ Len(ByteSeq(code)) = Len(oldCode) - 4 + (ShortSize + ShortSize)
              /\ ShortNeedsShort

C7_Witness ==
    /\ Returned
    /\ CycleRun
    /\ iter = 2
    /\ deferred[1].current = 0
    /\ deferred[2].current = 0
    /\ accepted = {<<1, 0>>, <<2, 0>>}
    /\ ShortNeedsShort

(* C8: a label, n bytes, then a jump to the label, short form of 2 bytes   *)
(* when label.pos - (cur + 2) is in -128 .. 127, general form of 5 bytes.  *)
(* As stated, n = 100 gives the short form and length 103, n = 200 the     *)
(* general form and length 206: C8_LengthsOriginal. The lengths are        *)
(* n + 2 = 102 and n + 5 = 205: C8_Lengths.                                *)
JumpResult(n, current, length) ==
    Returned /\ oldCode = JumpCode(n) =>
        /\ deferred[1].current = current
        /\ Len(ByteSeq(code)) = length
        /\ ret = startPos + length

C8_LengthsOriginal == JumpResult(100, 0, 103) /\ JumpResult(200, 1, 206)

C8_Lengths == JumpResult(100, 0, 102) /\ JumpResult(200, 1, 205)

C8_Witness ==
    /\ Returned
    /\ oldCode = JumpCode(200)
    /\ deferred[1].current = 1
    /\ rejected = {<<1, 0>>}
    /\ Len(ByteSeq(code)) = 205

(* C9: a deferred item of two alternatives whose first check returned a    *)
(* size and, in a later iteration, null: at the return of assemble its     *)
(* current is 1, its size is the one the second check returns at its final *)
(* position, and its bytes in the stream are those of the second           *)
(* production.                                                             *)
Relaxed(k) ==
    /\ Len(DefAt(k).checks) = 2
    /\ <<oldCode[k].id, 0>> \in accepted
    /\ <<oldCode[k].id, 0>> \in rejected

BytesOf(k) ==
    SubSeq(ByteSeq(code), (WalkPos(k - 1) - startPos) + 1, WalkPos(k) - startPos)

C9_Relaxed ==
    Returned =>
        \A k \in DefItems :
            Relaxed(k) =>
                /\ DefAt(k).current = 1
                /\ DefAt(k).size = Check(DefAt(k).checks[2], WalkPos(k - 1), lblPos)
                /\ BytesOf(k) =
                      Bytes(Prod(DefAt(k).checks[2], WalkPos(k - 1), lblPos, bigEndian))

C9_Witness ==
    /\ Returned
    /\ \E k \in DefItems :
          /\ Relaxed(k)
          /\ DefAt(k).current = 1
          /\ Len(BytesOf(k)) = GeneralSize
          /\ BytesOf(k)[1] = Num(GeneralOpcode)

(* C10: a block whose only deferred item has a first alternative that      *)
(* always returns a size. As stated, one iteration of the fix-point loop   *)
(* and current = 0: C10_OnePassOriginal. When that size does not depend on *)
(* the label positions, at most two iterations, the second changing        *)
(* nothing, and current = 0 throughout: C10_FirstAlwaysValid.              *)
SoleDeferred(kinds) ==
    /\ Cardinality(DefItems) = 1
    /\ \A k \in DefItems : DefAt(k).checks[1].kind \in kinds

C10_OnePassOriginal ==
    Returned /\ SoleDeferred({"generalDisp", "align", "near"}) =>
        /\ iter = 1
        /\ \A k \in DefItems : DefAt(k).current = 0

C10_FirstAlwaysValid ==
    InAssemble /\ SoleDeferred({"generalDisp", "align"}) =>
        /\ iter <= 2
        /\ iter = 2 /\ pc \in {"size", "label"} => ~hasChanged
        /\ \A k \in DefItems : DefAt(k).current = 0
        /\ Returned /\ (\E k \in DefItems : DefAt(k).size > 0) => iter = 2

C10_Witness ==
    /\ Returned
    /\ SoleDeferred({"generalDisp", "align"})
    /\ LblItems # {}
    /\ iter = 2
    /\ \A k \in DefItems : DefAt(k).current = 0 /\ DefAt(k).size > 0

(* C11: when, in a sizing pass, the checks of a deferred item from its     *)
(* current index to the last have all returned null, assemble is at that   *)
(* item with no alternative left and its next step throws "every check     *)
(* procedure tested without finding a valid one"; it returns no value, and *)
(* no assemble returns with a deferred item that has no alternative left.  *)
NoValidCheck == "every check procedure tested without finding a valid one"

LastRejected(d) == <<d, Len(deferred[d].checks) - 1>> \in rejected

Exhausted(d) ==
    /\ pc = "size"
    /\ idx <= Len(fixupList)
    /\ fixupList[idx][2] = Def(d)
    /\ deferred[d].current >= Len(deferred[d].checks)

Unresolved == pc = "failed" /\ err = NoValidCheck /\ ret = Null

C11_Unresolved ==
    /\ \A d \in DOMAIN deferred : LastRejected(d) => Exhausted(d) \/ Unresolved
    /\ Returned => \A k \in DefItems : DefAt(k).current < Len(DefAt(k).checks)
    /\ Unresolved => \E d \in DOMAIN deferred :
                        deferred[d].current >= Len(deferred[d].checks)

C11_Witness ==
    /\ Unresolved
    /\ \E d \in DOMAIN deferred :
          /\ LastRejected(d)
          /\ deferred[d].current = Len(deferred[d].checks)
          /\ \E e \in DOMAIN deferred : e < d /\ <<e, 0>> \in accepted

(* C12: a deferred item whose production appends a number of bytes that    *)
(* is not the size its check returned. As stated, assemble throws during   *)
(* the final emission: C12_MismatchRaises. In the code nothing compares    *)
(* the two: the only error of the emission is the one a production throws *)
(* by reading a label without position, the walk goes on by the declared   *)
(* size, and assemble returns the position and leaves the labels that the  *)
(* declared sizes give, while the block holds the bytes that were          *)
(* appended: C12_MismatchUndetected.                                       *)
Produced(k) == Len(Prod(Selected(DefAt(k)), WalkPos(k - 1), lblPos, bigEndian))

Mismatch(k) == Produced(k) # DefAt(k).size

C12_MismatchRaises == Returned => \A k \in DefItems : ~Mismatch(k)

C12_MismatchUndetected ==
    /\ pc = "failed" /\ code # oldCode => err = "undefined label"
    /\ Returned =>
          /\ ret = WalkPos(Len(oldCode))
          /\ byteNb = EmittedIn(Len(oldCode))
          /\ \A k \in LblItems : lblPos[oldCode[k].id] = WalkPos(k - 1)

C12_Witness ==
    /\ Returned
    /\ \E k \in DefItems : \E j \in LblItems :
          /\ Mismatch(k)
          /\ k < j
          /\ lblPos[oldCode[j].id] # startPos + EmittedIn(j - 1)
    /\ ret # startPos + byteNb

(* C13: genLabel on a label that has a position, given in this block or in *)
(* an earlier one, throws "label multiply defined" and changes neither the *)
(* stream nor the label; a label is appended only when it has no position, *)
(* and then gets one, so that it is in a stream once at most.              *)
MultiplyDefined == "label multiply defined: "

Occurrences(l) == Cardinality({k \in 1 .. Len(code) : code[k] = Lbl(l)})

C13_LabelOnce ==
    [][ /\ \A l \in Labels : Occurrences(l) <= 1
        /\ Idle /\ pc' = "idle" =>
              /\ err' = MultiplyDefined => code' = code /\ lblPos' = lblPos
              /\ \A l \in Labels :
                    /\ Placed(lblPos, l) =>
                          code' # Append(code, Lbl(l)) /\ lblPos'[l] = lblPos[l]
                    /\ code' = Append(code, Lbl(l)) =>
                          ~Placed(lblPos, l) /\ lblPos'[l] = 0 /\ err' = "none"
      ]_vars

C13_Witness ==
    /\ pc = "idle"
    /\ err = MultiplyDefined
    /\ calls = 0
    /\ \E l \in Labels : Placed(lblPos, l) /\ Occurrences(l) = 0

(* C14: at the return of assemble every align(multiple, offset, fill) of   *)
(* the block has given exactly k bytes of value fill (its low 8 bits),     *)
(* k being the least k >= 0 with position + k congruent to offset modulo   *)
(* multiple at the position where the padding starts, the start position   *)
(* of the block counting; so 11 bytes for align(16, 0, 0) at position 5,   *)
(* none at position 16, and 5 bytes 0xCC for align(8, 0, 0xCC) after 3     *)
(* bytes.                                                                  *)
Congruent(a, b, m) == (a - b) % m = 0

LeastPad(p, alt) ==
    CHOOSE k \in 0 .. alt.multiple - 1 :
        /\ Congruent(p + k, alt.offset, alt.multiple)
        /\ \A j \in 0 .. k - 1 : ~Congruent(p + j, alt.offset, alt.multiple)

(* the bytes the claim expects for the items i .. of c, starting at p *)
RECURSIVE ExpectedBytes(_, _, _)
ExpectedBytes(c, i, p) ==
    IF i > Len(c) THEN <<>>
    ELSE CASE c[i].type = "NUM" -> <<c[i]>> \o ExpectedBytes(c, i + 1, p + 1)
           [] c[i].type = "DEF" ->
                LET alt == deferred[c[i].id].checks[1]
                    k   == LeastPad(p, alt)
                IN  [j \in 1 .. k |-> Num(alt.fill % 256)]
                        \o ExpectedBytes(c, i + 1, p + k)
           [] OTHER -> ExpectedBytes(c, i + 1, p)

AlignAt(start, n, alt) ==
    /\ Returned
    /\ startPos = start
    /\ oldCode = AlignOne(n)
    /\ deferred[1].checks = <<alt>>

PadIs(n, k, fill) == ByteSeq(code) = Nops(n) \o [j \in 1 .. k |-> Num(fill)] \o <<Num(195)>>

C14_AlignPads ==
    /\ Returned /\ calls = 1 => ByteSeq(code) = ExpectedBytes(oldCode, 1, startPos)
    /\ AlignAt(5, 0, AlignAlt(16, 0, 0)) => PadIs(0, 11, 0)
    /\ AlignAt(16, 0, AlignAlt(16, 0, 0)) => PadIs(0, 0, 0)
    /\ AlignAt(0, 3, AlignAlt(8, 0, 204)) => PadIs(3, 5, 204)

C14_Witness ==
    /\ AlignAt(5, 0, AlignAlt(16, 0, 0))
    /\ PadIs(0, 11, 0)
    /\ lblPos[1] = 16
    /\ ret = 17

(* C15: origin(address, fill) adds a deferred item to the block, so that   *)
(* after assemble the item that follows the call is at position address,   *)
(* fill bytes standing between the place of the call and address.          *)
C15_OriginPads ==
    Returned =>
        \A o \in origins :
            o[2] >= startPos + NumsIn(oldCode, o[1]) =>
                startPos + EmittedIn(o[1]) = o[2]

(* C16: a block on which origin(address) was called with address smaller   *)
(* than the position of the call is never assembled: the call or the       *)
(* assemble that follows throws.                                           *)
C16_OriginBackwards ==
    Returned => \A o \in origins : o[2] >= startPos + NumsIn(oldCode, o[1])

(* C17: genRequired(linkObj) places one fresh label at the tail of the     *)
(* stream, appends width() / 8 bytes of value 0 after it and adds one      *)
(* entry {label, linkObj} to the required array; genProvided(linkObj)      *)
(* places one fresh label, appends no byte and adds one entry to the       *)
(* provided array. As stated, for every width() that is a multiple of 8:   *)
(* C17_AnyMultipleOf8. In the code for the widths 8, 16, 32 and 64; for    *)
(* any other width genRequired throws "Invalid width" once the label is    *)
(* placed, with no byte appended and no entry added: C17_Sites.            *)
Zeros(n) == [i \in 1 .. n |-> Num(0)]

FreshLabel == Len(lblPos) + 1

RequiredStep == Len(lblPos') = Len(lblPos) + 1 /\ providedArray' = providedArray

ProvidedStep == Len(providedArray') = Len(providedArray) + 1

LabelPlaced == lblPos' = Append(lblPos, 0)

RequiredDone(obj) ==
    /\ LabelPlaced
    /\ code' = Append(code, Lbl(FreshLabel)) \o Zeros(obj.width \div 8)
    /\ requiredArray' = Append(requiredArray, [label |-> FreshLabel, linkObj |-> obj])
    /\ providedArray' = providedArray

RequiredRefused(obj) ==
    /\ LabelPlaced
    /\ code' = Append(code, Lbl(FreshLabel))
    /\ err' = InvalidWidth(obj.width)
    /\ requiredArray' = requiredArray
    /\ providedArray' = providedArray

ProvidedDone(obj) ==
    /\ LabelPlaced
    /\ code' = Append(code, Lbl(FreshLabel))
    /\ providedArray' = Append(providedArray, [label |-> FreshLabel, linkObj |-> obj])
    /\ requiredArray' = requiredArray
    /\ err' = "none"

Made == pc = "made"

SetAddrCalls(b) == SelectSeq(setAddrLog, LAMBDA e : e[1] = b)

PlaceOf(label) == CHOOSE k \in 1 .. Len(oldCode) : oldCode[k] = Lbl(label)

InOldCode(label) == \E k \in 1 .. Len(oldCode) : oldCode[k] = Lbl(label)

Linked == pc = "linked" /\ err = "none"

Sites(b) == 1 .. Len(mcbs[b].required)

Honest(obj) == obj.bytes * 8 = obj.width

BlockBytes(b, o, n) == SubSeq(mcbs[b].bytes, o + 1, o + n)

(* the sites of the block just made are those of the required array *)
SitesOfBlock ==
    Made =>
        /\ Len(mcbs[Len(mcbs)].required) = Len(requiredArray)
        /\ \A i \in 1 .. Len(requiredArray) :
              LET site == mcbs[Len(mcbs)].required[i]
              IN  /\ site.offset = lblPos[requiredArray[i].label] - startPos
                  /\ site.dstAddr = mcbs[Len(mcbs)].base + site.offset
                  /\ site.linkObj = requiredArray[i].linkObj

ExampleBlocks ==
    /\ Len(mcbs) = 2
    /\ linked = 2
    /\ setAddrLog = <<<<1, "p", mcbs[1].base + 10>>>>
    /\ Len(mcbs[2].required) = 1
    /\ mcbs[2].required[1].offset = 4
    /\ mcbs[2].required[1].linkObj = RequiredObj(32, 4)

Covers(b, j, at) ==
    /\ mcbs[b].required[j].offset <= at
    /\ at < mcbs[b].required[j].offset + mcbs[b].required[j].linkObj.bytes

PastEnd(b, i) ==
    mcbs[b].required[i].offset + mcbs[b].required[i].linkObj.bytes > Len(mcbs[b].bytes)

Assembled(c) == \A k \in 1 .. Len(c) : IsNum(c[k])

StreamBytes == SelectSeq(code, IsNum)

Stream == IF pc \in {"size", "label", "emit"} THEN oldCode ELSE code

InStream(l) == \E k \in 1 .. Len(Stream) : Stream[k] = Lbl(l)

(* the number of items of c before its first label or deferred item *)
Leading(c) ==
    IF Assembled(c) THEN Len(c)
    ELSE (CHOOSE k \in 1 .. Len(c) : ~IsNum(c[k]) /\ \A j \in 1 .. k - 1 : IsNum(c[j])) - 1

IsPrefix(a, b) == Len(a) <= Len(b) /\ SubSeq(b, 1, Len(a)) = a

(* the number of items items 1 .. k of oldCode left in the final stream:   *)
(* their bytes and their listings                                          *)
ItemsLeft(k) ==
    EmittedIn(k) + Cardinality({j \in 1 .. k : oldCode[j].type = "LST"})

(* the bytes of the final stream before what item k of oldCode left in it *)
BytesBefore(k) == Len(SelectSeq(SubSeq(code, 1, ItemsLeft(k - 1)), IsNum))

Reassembled ==
    Returned =>
        /\ IsPrefix(SubSeq(oldCode, 1, Leading(oldCode)), code)
        /\ \A k \in LblItems :
              /\ ItemsLeft(k - 1) <= Len(code)
              /\ lblPos[oldCode[k].id] = startPos + BytesBefore(k)

EarlierLabelsStay ==
    \A l \in DOMAIN lblPos : lblPos[l] # Null /\ ~InStream(l) => lblPos'[l] = lblPos[l]

EncoderAppends == Idle /\ pc' = "idle" => IsPrefix(code, code')

---------------------------------------------------------------------------
(* The value of an address and of a number, as digits of base 0x10000,     *)
(* least significant first, and their sum.                                 *)

Digits == 1 .. 5

ValueOf(a) ==
    [k \in Digits |-> IF k <= Len(a.addrElemArray) THEN a.addrElemArray[k] ELSE 0]

(* the value of n >= 0 *)
ValueOfNumber(n) ==
    [k \in Digits |->
        CASE k = 1 -> n.lo
          [] k = 2 -> n.hi % ElemBase
          [] k = 3 -> n.hi \div ElemBase
          [] OTHER -> 0]

Zero == [k \in Digits |-> 0]
One == [k \in Digits |-> IF k = 1 THEN 1 ELSE 0]

RECURSIVE SumCarry(_, _, _)
SumCarry(x, y, k) ==
    IF k = 0 THEN 0 ELSE (x[k] + y[k] + SumCarry(x, y, k - 1)) \div ElemBase

Sum(x, y) == [k \in Digits |-> (x[k] + y[k] + SumCarry(x, y, k - 1)) % ElemBase]

(* x < 2^w *)
Fits(x, w) == \A k \in Digits : k > w \div 16 => x[k] = 0

(* x mod 2^w *)
Modulo(x, w) == [k \in Digits |-> IF k > w \div 16 THEN 0 ELSE x[k]]

(* x < y *)
Less(x, y) ==
    \E k \in Digits : x[k] < y[k] /\ \A j \in Digits : j > k => x[j] = y[j]

CalledOn(m) == called.method = m /\ Settled

(* C23: the complement of an address. As stated, for every address a of    *)
(* 32 or 64 bits a.complement().addOffset(1) added to a is the zero        *)
(* address and nothing throws: C23_ComplementPlusOne. In the code          *)
(* complement() has added 1 already: for a # 0 it returns the address that *)
(* added to a gives zero modulo 2^width, and adding 1 more gives 1, or     *)
(* throws "Address overflow" when a is 1; for a = 0 complement() itself    *)
(* throws "Address overflow": C23_Complement.                              *)
C23_ComplementPlusOne ==
    CalledOn("complement") =>
        /\ outcome.ends = "return"
        /\ addOffset(outcome.value, Plus(0, 1)).ends = "return"
        /\ LET s == addAddress(thisAddr, addOffset(outcome.value, Plus(0, 1)).value)
           IN  s.ends = "return" /\ ValueOf(s.value) = Zero

C23_Complement ==
    CalledOn("complement") =>
        IF ValueOf(thisAddr) = Zero
        THEN outcome = Raises("Address overflow")
        ELSE /\ outcome.ends = "return"
             /\ width(outcome.value) = width(thisAddr)
             /\ addAddress(thisAddr, outcome.value).ends = "return"
             /\ ValueOf(addAddress(thisAddr, outcome.value).value) = Zero
             /\ LET more == addOffset(outcome.value, Plus(0, 1))
                IN  IF ValueOf(thisAddr) = One
                    THEN more = Raises("Address overflow")
                    ELSE /\ more.ends = "return"
                         /\ ValueOf(addAddress(thisAddr, more.value).value) = One

C23_Witness ==
    /\ CalledOn("complement")
    /\ thisAddr.addrElemArray = <<22136, 4660>>
    /\ outcome.ends = "return"
    /\ outcome.value.addrElemArray = <<43400, 60875>>

(* C24: subOffset(n) with n >= 0 greater than the address ends by throwing *)
(* "Address underflow": it returns no address and it does end.             *)
UnderflowCall ==
    /\ called.method = "subOffset"
    /\ ~IsNegative(called.n)
    /\ Less(ValueOf(thisAddr), ValueOfNumber(called.n))

C24_UnderflowRaises ==
    (UnderflowCall /\ outcome.ends = "run")
        ~> (UnderflowCall /\ outcome = Raises("Address underflow"))

(* C25: addOffset(n) with n >= 0 throws "Address overflow" when the value  *)
(* of the address + n is 2^width or more, and returns the address of value *)
(* value + n otherwise.                                                    *)
C25_AddOffset ==
    CalledOn("addOffset") /\ ~IsNegative(called.n) =>
        LET sum == Sum(ValueOf(thisAddr), ValueOfNumber(called.n))
        IN  IF Fits(sum, width(thisAddr))
            THEN /\ outcome.ends = "return"
                 /\ width(outcome.value) = width(thisAddr)
                 /\ ValueOf(outcome.value) = sum
            ELSE outcome = Raises("Address overflow")

(* C26: for every address and every n with address + n in 0 .. 2^width - 1 *)
(* addOffset(n) returns an address whose subOffset(n) is an address equal  *)
(* to the first (cmp returns 0).                                           *)
InRange(a, n) ==
    IF IsNegative(n) THEN ~Less(ValueOf(a), ValueOfNumber(Negated(n)))
    ELSE Fits(Sum(ValueOf(a), ValueOfNumber(n)), width(a))

C26_RoundTrip ==
    CalledOn("addOffset") /\ InRange(thisAddr, called.n) =>
        /\ outcome.ends = "return"
        /\ subOffset(outcome.value, called.n).ends = "return"
        /\ cmp(subOffset(outcome.value, called.n).value, thisAddr) = ReturnsNumber(0)

(* C27: for 32-bit addresses a and b, a.getAddrOffsetBytes(b, bigEndian)   *)
(* returns, throwing nothing, the 4 bytes of (b - a) mod 2^32 in the order *)
(* asked for.                                                              *)
LittleFirst(bytes, be) == IF be THEN Reversed(bytes) ELSE bytes

(* the value of 4 bytes, least significant first *)
ValueOfBytes(bs) ==
    [k \in Digits |->
        CASE k = 1 -> bs[1] + 256 * bs[2]
          [] k = 2 -> bs[3] + 256 * bs[4]
          [] OTHER -> 0]

C27_OffsetBytes ==
    CalledOn("getAddrOffsetBytes") /\ width(thisAddr) = 32 /\ width(called.addr) = 32 =>
        /\ outcome.ends = "return"
        /\ Len(outcome.bytes) = 4
        /\ Modulo(Sum(ValueOf(thisAddr),
                      ValueOfBytes(LittleFirst(outcome.bytes,
                                               OrDefault(called.flag, thisAddr.bigEndian)))),
                  32) = ValueOf(called.addr)

(* C28: for every address a and each byte order e, the address constructed *)
(* from a.getBytes(e) with the flag e has the width of a and is equal to   *)
(* a: cmp returns 0.                                                       *)
C28_BytesRoundTrip ==
    CalledOn("getBytes") /\ called.flag # "undefined" =>
        /\ outcome.ends = "return"
        /\ Len(outcome.bytes) = width(thisAddr) \div 8
        /\ LET again == asm_address(outcome.bytes, called.flag)
           IN  /\ again.ends = "return"
               /\ width(again.value) = width(thisAddr)
               /\ cmp(again.value, thisAddr) = ReturnsNumber(0)
               /\ cmp(thisAddr, again.value) = ReturnsNumber(0)

C28_Witness ==
    /\ CalledOn("getBytes")
    /\ called.flag = "true"
    /\ ~thisAddr.bigEndian
    /\ thisAddr.addrElemArray = <<513, 1027, 1541, 2055>>
    /\ outcome.bytes = <<8, 7, 6, 5, 4, 3, 2, 1>>
    /\ asm_address(outcome.bytes, "true").value.addrElemArray = thisAddr.addrElemArray

(* C29: gen16, gen32 and gen64 append 2, 4 and 8 bytes, each in 0 .. 255;  *)
(* on a little-endian block byte k (from 0) is (n >> 8k) & 0xff, and on a  *)
(* big-endian block the bytes are the same in the opposite order.          *)
RECURSIVE ShiftedRight(_, _)
ShiftedRight(n, k) == IF k = 0 THEN n ELSE ShiftedRight(n \div 256, k - 1)

Expected(n, w, be) ==
    LET little == [k \in 1 .. w \div 8 |-> ShiftedRight(n, k - 1) % 256]
    IN  IF be THEN Reversed(little) ELSE little

NumbersEncoded ==
    \A n \in Numbers :
        /\ Gen16(n, bigEndian) = Expected(n, 16, bigEndian)
        /\ Gen32(n, bigEndian) = Expected(n, 32, bigEndian)
        /\ Gen64(n, bigEndian) = Expected(n, 64, bigEndian)
        /\ \A k \in 1 .. 8 : Gen64(n, bigEndian)[k] \in 0 .. 255

NumbersAppended ==
    \A w \in {16, 32, 64} :
        Len(code') = Len(code) + w \div 8 =>
            \E n \in Numbers : code' = code \o Bytes(Expected(n, w, bigEndian))

C29_Numbers == []NumbersEncoded /\ [][NumbersAppended]_vars

C29_Witness ==
    /\ bigEndian
    /\ code = Bytes(<<18, 52, 86, 120>>) \o Bytes(<<0, 0, 0, 0, 18, 52, 86, 120>>)
                \o Bytes(<<255, 255>>)

(* C30: in the sizing pass the position passed to the check of a deferred  *)
(* object is startPos, plus the plain bytes before it, plus the sizes just *)
(* accepted for the deferred objects before it in the walk.                *)
PlaceOfFixup(i) ==
    CHOOSE k \in FixupPlaces(oldCode) :
        Cardinality({j \in FixupPlaces(oldCode) : j < k}) = i - 1

AtDeferred ==
    /\ pc = "size"
    /\ idx <= Len(fixupList)
    /\ fixupList[idx][2].type = "DEF"

C30_AdvanceByNewSize ==
    AtDeferred => pos + fixupList[idx][1] = WalkPos(PlaceOfFixup(idx) - 1)

(* C31: when assemble returns, every alternative before the selected one   *)
(* of a deferred object of the stream was rejected, by a check that        *)
(* returned null, during this call of assemble; and the bytes of a         *)
(* deferred object are those its selected production appends.              *)
EarlierRejected ==
    \A k \in DefItems :
        \A i \in 0 .. DefAt(k).current - 1 : <<oldCode[k].id, i>> \in rejected

C31_RejectedInThisCall == Returned => EarlierRejected

(* C32: every call of assemble starts its relaxation with current = 0 and  *)
(* size = 0 for each deferred object of the stream and with each label of  *)
(* the stream at its walk position, also after a call that ended with an   *)
(* error.                                                                  *)
StartsRelaxation ==
    /\ pc = "size"
    /\ iter = 1
    /\ idx = 1
    /\ accepted = {}
    /\ rejected = {}

LabelsAtWalk ==
    \A k \in LblItems : lblPos[oldCode[k].id] = startPos + NumsIn(oldCode, k - 1)

C32_StartsFromZero ==
    StartsRelaxation =>
        /\ \A k \in DefItems : DefAt(k).current = 0 /\ DefAt(k).size = 0
        /\ LabelsAtWalk

(* C33: after a normal return of assemble the stream holds bytes and       *)
(* listings only, those of the stream it was given being kept in order;    *)
(* a further call with no encoder call in between leaves the stream and    *)
(* every label as they are and returns the same value: a call on a stream  *)
(* of bytes and listings returns startPos + the number of its bytes, so    *)
(* the value returned by the call before has to be that number.            *)
OnlyBytesAndListings(c) == \A k \in 1 .. Len(c) : c[k].type \in {"NUM", "LST"}

OrderKept ==
    \A k \in 1 .. Len(oldCode) :
        oldCode[k].type \in {"NUM", "LST"} =>
            /\ ItemsLeft(k) \in 1 .. Len(code)
            /\ code[ItemsLeft(k)] = oldCode[k]

Again == InAssemble /\ OnlyBytesAndListings(oldCode)

CleanStream == Returned => OnlyBytesAndListings(code) /\ OrderKept

AgainSame == Returned /\ Again => code = oldCode /\ ret = startPos + byteNb

(* the steps of a call of assemble on a stream of bytes and listings *)
AgainLabelsStay ==
    /\ OnlyBytesAndListings(Stream)
    /\ pc \in {"size", "label", "emit"} \/ pc' = "size"
    => lblPos' = lblPos

C33_SameValue ==
    /\ [](CleanStream /\ AgainSame)
    /\ [](Returned => ret = startPos + byteNb)
    /\ [][AgainLabelsStay]_vars

(* What the code does: the value returned is the position the declared     *)
(* sizes give, which is startPos + the number of bytes, the value of a     *)
(* further call, when every production appended as many bytes as its       *)
(* check declared.                                                         *)
ReturnsDeclared ==
    Returned =>
        /\ ret = WalkPos(Len(oldCode))
        /\ (\A k \in DefItems : ~Mismatch(k)) => ret = startPos + byteNb

C33_Reassembly ==
    /\ [](CleanStream /\ AgainSame)
    /\ []ReturnsDeclared
    /\ [][AgainLabelsStay]_vars

C33_Witness ==
    /\ Returned
    /\ calls = 2
    /\ oldCode = <<Lst("text")>> \o Bytes(<<0, 0>>)
    /\ code = oldCode
    /\ ret = startPos + 2

(* C34: once the fix-point loop has ended, the emission walk is at the     *)
(* position the sizes of the deferred objects give, and so is every label  *)
(* of the stream: assemble never ends with "inconsistency detected".       *)
EmissionWalk ==
    pc = "emit" =>
        /\ pos = WalkPos(idx - 1)
        /\ \A k \in LblItems : lblPos[oldCode[k].id] = WalkPos(k - 1)

C34_NoInconsistency == EmissionWalk /\ err # "inconsistency detected"

C34_Witness ==
    /\ pc = "emit"
    /\ iter >= 2
    /\ \E k \in LblItems : k < idx /\ \E j \in DefItems : j < k /\ DefAt(j).size > 0

(* C35: link(mcb) changes only the bytes of mcb inside the range of a      *)
(* required site, from its offset over as many bytes as linkValue          *)
(* returns; the other bytes of mcb, its sites and its address, and every   *)
(* other block stay as they are; linking the block just linked again,      *)
(* the link objects being the same, leaves its bytes as they are.          *)
LinkCall == pc' = "linked"

InSomeSite(b, at) == \E j \in Sites(b) : Covers(b, j, at)

LinkFrame ==
    LinkCall =>
        /\ DOMAIN mcbs' = DOMAIN mcbs
        /\ \A b \in DOMAIN mcbs : b # linked' => mcbs'[b] = mcbs[b]
        /\ mcbs'[linked'].base = mcbs[linked'].base
        /\ mcbs'[linked'].required = mcbs[linked'].required
        /\ Len(mcbs'[linked'].bytes) = Len(mcbs[linked'].bytes)
        /\ \A at \in 0 .. Len(mcbs[linked'].bytes) - 1 :
              ~InSomeSite(linked', at) =>
                  mcbs'[linked'].bytes[at + 1] = mcbs[linked'].bytes[at + 1]

LinkTwice ==
    LinkCall /\ pc = "linked" /\ linked' = linked /\ linkAddr' = linkAddr =>
        mcbs' = mcbs /\ err' = err

====
